---------------------------- MODULE Spec2Model ----------------------------
(***************************************************************************)
(* The streaming front-end of the JPEG XL decoder (lib/jxl/decode.cc):     *)
(* the signature classifier, the container box walker, the header/frame   *)
(* driver and the public entry points, as a state machine over one        *)
(* decoder object and one caller that feeds a file in byte chunks.        *)
(*                                                                         *)
(* The inner codestream decoder (Bundle::Read, DecodeFrameHeader,          *)
(* FrameDecoder) is a collaborator: here it accepts exactly the bytes of   *)
(* the reference codestream of the chosen file, asks for more input when   *)
(* the window ends before the field it reads, and fails on any other byte. *)
(***************************************************************************)
EXTENDS Integers, Sequences, FiniteSets, TLC

VARIABLES
    fid,        \* which input file the caller decodes
    memory_limit_base_, \* process-wide limit set by SetDecoderMemoryLimitBase_
    used_cpu_base_,     \* process-wide running sum of decoded pixels
    dec,        \* the JxlDecoderStruct
    fed,        \* caller: number of file bytes handed to SetInput so far
    cpos,       \* caller: file offset of the first byte not yet consumed
    op,         \* the API function called last
    ret,        \* the status it returned
    hist,       \* observer: what ProcessInput has returned in this pass
    sigchk,     \* caller of JxlSignatureCheck: its buffer and what it got back
    pnm,        \* caller of the PNM codec: its text or image and what it got back
    depchk      \* caller of GetFrameDependencies: its tables and what it got back

vars == <<fid, memory_limit_base_, used_cpu_base_, dec, fed, cpos, op, ret, hist, sigchk, pnm,
          depchk>>

----------------------------------------------------------------------------
(* Bounds of the model *)

\* length of the contents of an unknown box
UnknownLen == 2
\* largest number of frames one SkipFrames call asks to skip
MaxSkipArg == 1
\* cap on skip_frames
MaxSkip == 2
\* cap on the number of Reset/Rewind calls in one behaviour
MaxRestarts == 1
\* the memory limit of the runs that have one, in pixels
LimitPixels == 4
\* how far used_cpu_base_ is followed beyond the limit
MaxCpuOver == 4
\* the ProcessInput calls a one-shot decode is followed for
MaxCalls == 16

----------------------------------------------------------------------------
(* Status codes of JxlDecoderStatus and signature classes *)

JXL_DEC_SUCCESS == "Success"
JXL_DEC_ERROR == "Error"
JXL_DEC_NEED_MORE_INPUT == "NeedMoreInput"
JXL_DEC_NEED_PREVIEW_OUT_BUFFER == "NeedPreviewOutBuffer"
JXL_DEC_NEED_IMAGE_OUT_BUFFER == "NeedImageOutBuffer"
JXL_DEC_BASIC_INFO == "BasicInfo"
JXL_DEC_EXTENSIONS == "Extensions"
JXL_DEC_COLOR_ENCODING == "ColorEncoding"
JXL_DEC_PREVIEW_IMAGE == "PreviewImage"
JXL_DEC_FRAME == "Frame"
JXL_DEC_FULL_IMAGE == "FullImage"
JXL_DEC_JPEG_RECONSTRUCTION == "JpegReconstruction"

InformativeEvents ==
    {JXL_DEC_BASIC_INFO, JXL_DEC_EXTENSIONS, JXL_DEC_COLOR_ENCODING,
     JXL_DEC_PREVIEW_IMAGE, JXL_DEC_FRAME, JXL_DEC_FULL_IMAGE,
     JXL_DEC_JPEG_RECONSTRUCTION}

JXL_SIG_NOT_ENOUGH_BYTES == "SigNotEnoughBytes"
JXL_SIG_INVALID == "SigInvalid"
JXL_SIG_CODESTREAM == "SigCodestream"
JXL_SIG_CONTAINER == "SigContainer"

kInited == "Inited"
kStarted == "Started"
kFinished == "Finished"
kError == "Error"

kHeader == "Header"
kTOC == "TOC"
kFull == "Full"
kFullOutput == "FullOutput"

NULL == -1
\* marker of "no status yet, fall through to the next statement"
CONT == "continue"

Min(a, b) == IF a < b THEN a ELSE b

----------------------------------------------------------------------------
(* Bytes *)

kCodestreamMarker == 10

BE32(n) == <<0, 0, n \div 256, n % 256>>

LoadBE32(b, p) == ((b[p + 1] * 256 + b[p + 2]) * 256 + b[p + 3]) * 256 + b[p + 4]

RECURSIVE LoadBE(_, _, _)
LoadBE(b, p, n) == IF n = 0 THEN 0 ELSE LoadBE(b, p, n - 1) * 256 + b[p + n]

LoadBE64(b, p) == LoadBE(b, p, 8)

TypeJXL == <<74, 88, 76, 32>>
TypeJxlc == <<106, 120, 108, 99>>
TypeJxlp == <<106, 120, 108, 112>>
TypeJbrd == <<106, 98, 114, 100>>
TypeXml == <<120, 109, 108, 32>>

\* the 12-byte signature box 00 00 00 0C 'J' 'X' 'L' ' ' 0D 0A 87 0A
SignatureBox == BE32(12) \o TypeJXL \o <<13, 10, 135, 10>>

Box(type, payload) == BE32(8 + Len(payload)) \o type \o payload
\* a box with the 8-byte extended size field (size == 1)
BoxExt(type, payload) ==
    BE32(1) \o type \o BE32(0) \o BE32(16 + Len(payload)) \o payload
\* a final box of unknown length (size == 0)
BoxToEnd(type, payload) == BE32(0) \o type \o payload
\* a box whose size field is a given, possibly invalid, number
BoxRaw(size, type, payload) == BE32(size) \o type \o payload

JxlpIndex(i, last) == <<(IF last THEN 128 ELSE 0), 0, 0, i>>

Filler(n) == [i \in 1..n |-> 238]


----------------------------------------------------------------------------
(* Images: what the codestream of a file holds.  Offsets count bytes from  *)
(* the start of the codestream; the signature FF 0A is bytes 0 and 1.      *)

RECURSIVE SumSeq(_)
SumSeq(s) == IF s = <<>> THEN 0 ELSE Head(s) + SumSeq(Tail(s))

\* A frame: fh bytes of frame header, hdr bytes of header plus TOC, then the
\* sections.  (xsize, ysize) are the frame dimensions, (pxsize, pysize) the
\* upsampled padded ones.
Frame(fh, secs, is_last, duration, saved_as, references, can_ref, dc, xs, ys, pxs, pys) ==
    [fh |-> fh, hdr |-> fh + 1, secs |-> secs, size |-> fh + 1 + SumSeq(secs),
     is_last |-> is_last, duration |-> duration, saved_as |-> saved_as,
     references |-> references, can_ref |-> can_ref, dc |-> dc,
     xsize |-> xs, ysize |-> ys, pxsize |-> pxs, pysize |-> pys]

\* two stills, one frame each (an animation)
ImgAnim ==
    [xsize |-> 2, ysize |-> 1, pxsize |-> 2, pysize |-> 1,
     bi_end |-> 3, hdr_end |-> 4, extensions |-> 0, have_preview |-> FALSE,
     preview_size |-> 0, bad |-> NULL,
     frames |-> << Frame(1, <<1>>, FALSE, 1, 0, 0, FALSE, FALSE, 2, 1, 2, 1),
                   Frame(1, <<1>>, TRUE, 1, 0, 0, FALSE, FALSE, 2, 1, 2, 1) >>]

\* one still built from a saved zero-duration layer and the frame that
\* blends onto it; a preview frame and user extensions are present
ImgLayers ==
    [xsize |-> 2, ysize |-> 1, pxsize |-> 2, pysize |-> 1,
     bi_end |-> 3, hdr_end |-> 4, extensions |-> 1, have_preview |-> TRUE,
     preview_size |-> 3, bad |-> NULL,
     frames |-> << Frame(1, <<1>>, FALSE, 0, 1, 0, TRUE, FALSE, 2, 1, 2, 1),
                   Frame(1, <<1, 1>>, TRUE, 0, 0, 1, FALSE, FALSE, 2, 1, 2, 1) >>]

\* ImgAnim with a damaged byte in the section of the first frame
ImgCorrupt == [ImgAnim EXCEPT !.bad = 6]

\* an image larger than the memory limit allows
ImgBig ==
    [xsize |-> 3, ysize |-> 3, pxsize |-> 3, pysize |-> 3,
     bi_end |-> 3, hdr_end |-> 4, extensions |-> 0, have_preview |-> FALSE,
     preview_size |-> 0, bad |-> NULL,
     frames |-> << Frame(1, <<1>>, TRUE, 0, 0, 0, FALSE, FALSE, 3, 3, 3, 3) >>]

\* an image within the limit whose padded size is not, holding one cropped
\* frame whose padded size is within the limit; its frame header is 2 bytes
ImgCrop ==
    [xsize |-> 2, ysize |-> 2, pxsize |-> 4, pysize |-> 2,
     bi_end |-> 3, hdr_end |-> 4, extensions |-> 0, have_preview |-> FALSE,
     preview_size |-> 0, bad |-> NULL,
     frames |-> << Frame(2, <<1>>, TRUE, 0, 0, 0, FALSE, FALSE, 2, 2, 2, 2) >>]

\* ImgAnim whose first still is saved in slot 0 and referenced by the second
ImgSaved ==
    [ImgAnim EXCEPT
        !.frames = << Frame(1, <<1>>, FALSE, 1, 1, 0, TRUE, FALSE, 2, 1, 2, 1),
                      Frame(1, <<1>>, TRUE, 1, 0, 1, FALSE, FALSE, 2, 1, 2, 1) >>]

\* four stills: the first two are saved in slot 0, one after the other; the
\* third is built from a DC frame saved in slot 4 and a frame that reads
\* slots 0 and 4; the last reads slot 0
ImgDeps ==
    [ImgAnim EXCEPT
        !.frames = << Frame(1, <<1>>, FALSE, 1, 1, 0, TRUE, FALSE, 2, 1, 2, 1),
                      Frame(1, <<1>>, FALSE, 1, 1, 0, TRUE, FALSE, 2, 1, 2, 1),
                      Frame(1, <<1>>, FALSE, 0, 16, 0, FALSE, TRUE, 2, 1, 2, 1),
                      Frame(1, <<1>>, FALSE, 1, 0, 17, FALSE, FALSE, 2, 1, 2, 1),
                      Frame(1, <<1>>, TRUE, 1, 0, 1, FALSE, FALSE, 2, 1, 2, 1) >>]

\* four stills in a chain: the first is saved in slot 0, the second reads
\* it and is saved in slot 1, the third reads nothing and is not saved, the
\* last reads slot 1
ImgChain ==
    [ImgAnim EXCEPT
        !.frames = << Frame(1, <<1>>, FALSE, 1, 1, 0, TRUE, FALSE, 2, 1, 2, 1),
                      Frame(1, <<1>>, FALSE, 1, 2, 1, TRUE, FALSE, 2, 1, 2, 1),
                      Frame(1, <<1>>, FALSE, 1, 0, 0, FALSE, FALSE, 2, 1, 2, 1),
                      Frame(1, <<1>>, TRUE, 1, 0, 2, FALSE, FALSE, 2, 1, 2, 1) >>]

RECURSIVE FramesSize(_, _)
FramesSize(img, k) ==
    IF k = 0 THEN 0 ELSE img.frames[k].size + FramesSize(img, k - 1)

\* offset of frame k (1-based) in the codestream
FrameOff(img, k) == img.hdr_end + img.preview_size + FramesSize(img, k - 1)

CSLen(img) == FrameOff(img, Len(img.frames) + 1)

\* the byte the reference codestream holds at offset i >= 2
RefByte(i) == 16 + i

CSBytes(img) ==
    [i \in 1..CSLen(img) |->
        IF i = 1 THEN 255
        ELSE IF i = 2 THEN kCodestreamMarker
        ELSE IF i - 1 = img.bad THEN 1
        ELSE RefByte(i - 1)]

----------------------------------------------------------------------------
(* Input files *)

Part(s, a, b) == SubSeq(s, a, b)

MkFile(bytes, img, valid, cuts) ==
    [bytes |-> bytes, img |-> img, valid |-> valid, cuts |-> cuts]

\* a raw codestream
FileRaw == MkFile(CSBytes(ImgAnim), ImgAnim, TRUE, {6})

\* container: one bounded jxlc box followed by an unknown box
FileJxlc ==
    MkFile(SignatureBox \o Box(TypeJxlc, CSBytes(ImgAnim))
             \o Box(TypeXml, Filler(UnknownLen)),
           ImgAnim, TRUE, {16, 26})

\* container: the codestream in two jxlp boxes with an unknown box between
FileJxlp ==
    MkFile(SignatureBox
             \o Box(TypeJxlp, JxlpIndex(0, FALSE) \o Part(CSBytes(ImgAnim), 1, 5))
             \o Box(TypeXml, Filler(UnknownLen))
             \o Box(TypeJxlp, JxlpIndex(1, TRUE)
                                \o Part(CSBytes(ImgAnim), 6, CSLen(ImgAnim))),
           ImgAnim, TRUE, {27, 38})

\* container: a jbrd box, then the codestream in a final jxlc box of
\* unknown length
FileJbrd ==
    MkFile(SignatureBox \o Box(TypeJbrd, Filler(2))
             \o BoxToEnd(TypeJxlc, CSBytes(ImgLayers)),
           ImgLayers, TRUE, {21, 34})

\* container: an unknown box with an extended size field, then two adjacent
\* jxlp boxes
FileExt ==
    MkFile(SignatureBox \o BoxExt(TypeXml, Filler(UnknownLen))
             \o Box(TypeJxlp, JxlpIndex(0, FALSE) \o Part(CSBytes(ImgCrop), 1, 6))
             \o Box(TypeJxlp, JxlpIndex(1, TRUE)
                                \o Part(CSBytes(ImgCrop), 7, CSLen(ImgCrop))),
           ImgCrop, TRUE, {45})

\* container with a box whose size field is smaller than its header
FileBadBox ==
    MkFile(SignatureBox \o BoxRaw(4, TypeXml, <<>>)
             \o Box(TypeJxlc, CSBytes(ImgAnim)),
           ImgAnim, FALSE, {14})

FileCorrupt == MkFile(CSBytes(ImgCorrupt), ImgCorrupt, FALSE, {5})

FileBig == MkFile(CSBytes(ImgBig), ImgBig, TRUE, {2})

FileCrop == MkFile(CSBytes(ImgCrop), ImgCrop, TRUE, {5})

FileSaved == MkFile(CSBytes(ImgSaved), ImgSaved, TRUE, {6})

FileDeps == MkFile(CSBytes(ImgDeps), ImgDeps, TRUE, {6})

FileChain == MkFile(CSBytes(ImgChain), ImgChain, TRUE, {6})

\* containers that open with a small unknown box and go on with a box the
\* box loop refuses: an extended size smaller than the 16-byte header,
FileExtSmall ==
    MkFile(SignatureBox \o Box(TypeXml, Filler(2))
             \o BE32(1) \o TypeXml \o BE32(0) \o BE32(9) \o <<1>>,
           ImgAnim, FALSE, {})

\* an extended size that carries the end of the box past SIZE_MAX,
FileOverflow ==
    MkFile(SignatureBox \o Box(TypeXml, Filler(2))
             \o BE32(1) \o TypeXml \o <<0, 0, 0, 0, 127, 255, 255, 255>>,
           ImgAnim, FALSE, {})

\* a jxlp box of 10 bytes, followed by a jxlc box,
FileJxlpSmall ==
    MkFile(SignatureBox \o Box(TypeXml, Filler(2))
             \o BoxRaw(10, TypeJxlp, <<0, 0>>)
             \o Box(TypeJxlc, CSBytes(ImgAnim)),
           ImgAnim, FALSE, {})

\* a jxlp box of 10 bytes at the end of the file,
FileJxlpTail ==
    MkFile(SignatureBox \o Box(TypeXml, Filler(2))
             \o BoxRaw(10, TypeJxlp, <<0, 0>>),
           ImgAnim, FALSE, {})

\* a jxlp box of unknown length that is not marked as the last,
FileJxlpOpen ==
    MkFile(SignatureBox \o Box(TypeXml, Filler(2))
             \o BoxToEnd(TypeJxlp, JxlpIndex(0, FALSE) \o CSBytes(ImgAnim)),
           ImgAnim, FALSE, {})

\* an unknown box of unknown length and no codestream box before it;
FileNoCodestream ==
    MkFile(SignatureBox \o Box(TypeXml, Filler(2))
             \o BoxToEnd(TypeXml, Filler(3)),
           ImgAnim, FALSE, {})

\* and a container whose unknown box of unknown length follows a jxlp box
FileOpenAfterCodestream ==
    MkFile(SignatureBox
             \o Box(TypeJxlp, JxlpIndex(0, FALSE) \o Part(CSBytes(ImgAnim), 1, 5))
             \o BoxToEnd(TypeXml, Filler(3)),
           ImgAnim, FALSE, {})

\* six stills of 2 x 2 pixels, one frame each: six times the pixels of the
\* image
ImgSix ==
    [xsize |-> 2, ysize |-> 2, pxsize |-> 2, pysize |-> 2,
     bi_end |-> 3, hdr_end |-> 4, extensions |-> 0, have_preview |-> FALSE,
     preview_size |-> 0, bad |-> NULL,
     frames |-> << Frame(1, <<1>>, FALSE, 1, 0, 0, FALSE, FALSE, 2, 2, 2, 2),
                   Frame(1, <<1>>, FALSE, 1, 0, 0, FALSE, FALSE, 2, 2, 2, 2),
                   Frame(1, <<1>>, FALSE, 1, 0, 0, FALSE, FALSE, 2, 2, 2, 2),
                   Frame(1, <<1>>, FALSE, 1, 0, 0, FALSE, FALSE, 2, 2, 2, 2),
                   Frame(1, <<1>>, FALSE, 1, 0, 0, FALSE, FALSE, 2, 2, 2, 2),
                   Frame(1, <<1>>, TRUE, 1, 0, 0, FALSE, FALSE, 2, 2, 2, 2) >>]

FileSix == MkFile(CSBytes(ImgSix), ImgSix, TRUE, {6})

Files ==
    <<FileRaw, FileJxlc, FileJxlp, FileJbrd, FileExt, FileBadBox,
      FileCorrupt, FileBig, FileCrop, FileSaved, FileDeps, FileChain,
      FileExtSmall, FileOverflow, FileJxlpSmall, FileJxlpTail, FileJxlpOpen,
      FileNoCodestream, FileOpenAfterCodestream, FileSix>>

FileBytes == Files[fid].bytes
FileLen == Len(FileBytes)
Img == Files[fid].img

----------------------------------------------------------------------------
(* Helpers of decode.cc *)

cpu_limit_base_ == 5 * memory_limit_base_

CheckSizeLimit(xsize, ysize) ==
    IF memory_limit_base_ = 0 THEN TRUE
    ELSE IF xsize = 0 \/ ysize = 0 THEN TRUE
    ELSE xsize * ysize <= memory_limit_base_

\* a + b > size
OutOfBounds(a, b, size) == a + b > size

\* a + b + c > size
OutOfBounds3(a, b, c, size) == a + b + c > size

container_header_size == 48
max_codestream_basic_info_size == 50

InitialBasicInfoSizeHint == container_header_size + max_codestream_basic_info_size

\* ReadSignature that answers Invalid as soon as a byte differs from the
\* container signature, without waiting for 12 bytes.
ReadSignature_EagerInvalid(buf, len, pos) ==
    IF pos >= len THEN [sig |-> "SigNotEnoughBytes", pos |-> pos]
    ELSE LET n == len - pos
             b(i) == buf[pos + i + 1]
             magic == <<0, 0, 0, 12, 74, 88, 76, 32, 13, 10, 135, 10>>
             m == IF n < 12 THEN n ELSE 12
         IN IF b(0) = 255
            THEN IF n < 2 THEN [sig |-> "SigNotEnoughBytes", pos |-> pos]
                 ELSE IF b(1) = 10
                      THEN [sig |-> "SigCodestream", pos |-> pos + 2]
                      ELSE [sig |-> "SigInvalid", pos |-> pos]
            ELSE IF \E i \in 0..(m - 1) : b(i) # magic[i + 1]
            THEN [sig |-> "SigInvalid", pos |-> pos]
            ELSE IF n < 12 THEN [sig |-> "SigNotEnoughBytes", pos |-> pos]
            ELSE [sig |-> "SigContainer", pos |-> pos + 12]

\* Returns the class of the signature at buf[pos..len) and the new pos.
ReadSignature(buf, len, pos) ==
    IF pos >= len THEN [sig |-> JXL_SIG_NOT_ENOUGH_BYTES, pos |-> pos]
    ELSE LET n == len - pos
             b(i) == buf[pos + i + 1]
         IN IF n >= 1 /\ b(0) = 255
            THEN IF n < 2 THEN [sig |-> JXL_SIG_NOT_ENOUGH_BYTES, pos |-> pos]
                 ELSE IF b(1) = kCodestreamMarker
                      THEN [sig |-> JXL_SIG_CODESTREAM, pos |-> pos + 2]
                      ELSE [sig |-> JXL_SIG_INVALID, pos |-> pos]
            ELSE IF n >= 1 /\ b(0) = 0
            THEN IF n < 12 THEN [sig |-> JXL_SIG_NOT_ENOUGH_BYTES, pos |-> pos]
                 ELSE IF /\ b(1) = 0 /\ b(2) = 0 /\ b(3) = 12 /\ b(4) = 74
                         /\ b(5) = 88 /\ b(6) = 76 /\ b(7) = 32 /\ b(8) = 13
                         /\ b(9) = 10 /\ b(10) = 135 /\ b(11) = 10
                      THEN [sig |-> JXL_SIG_CONTAINER, pos |-> pos + 12]
                      ELSE [sig |-> JXL_SIG_INVALID, pos |-> pos]
            ELSE [sig |-> JXL_SIG_INVALID, pos |-> pos]

JxlSignatureCheck(buf, len) == ReadSignature(buf, len, 0).sig

----------------------------------------------------------------------------
(* The decoder object *)

\* The state of a decoder JxlDecoderCreate returns: a default-constructed
\* struct, whose jpeg_decoder parses no box, on which JxlDecoderReset ran.
JxlDecoderCreate ==
    [stage |-> kInited,
     got_signature |-> FALSE,
     first_codestream_seen |-> FALSE,
     last_codestream_seen |-> FALSE,
     got_basic_info |-> FALSE,
     got_all_headers |-> FALSE,
     post_headers |-> FALSE,
     got_preview_image |-> FALSE,
     file_pos |-> 0,
     box_begin |-> 0,
     box_end |-> 0,
     skip_box |-> FALSE,
     codestream_pos |-> 0,
     codestream_begin |-> 0,
     codestream_end |-> 0,
     keep_orientation |-> FALSE,
     events_wanted |-> {},
     orig_events_wanted |-> {},
     basic_info_size_hint |-> InitialBasicInfoSizeHint,
     have_container |-> FALSE,
     preview_out_buffer_set |-> FALSE,
     image_out_buffer_set |-> FALSE,
     image_out_buffer |-> FALSE,
     image_out_callback |-> FALSE,
     next_in |-> NULL,
     avail_in |-> 0,
     frame_dec |-> FALSE,
     sections |-> <<>>,
     br_open |-> FALSE,
     frame_dec_in_progress |-> FALSE,
     ib |-> FALSE,
     frame_header |-> NULL,
     codestream |-> <<>>,
     jpeg_inside_box |-> FALSE,
     jpeg_box_size |-> 0,
     jpeg_buffered |-> 0,
     frame_stage |-> kHeader,
     frame_start |-> 0,
     frame_size |-> 0,
     is_last_of_still |-> FALSE,
     is_last_total |-> FALSE,
     skip_frames |-> 0,
     skipping_frame |-> FALSE,
     internal_frames |-> 0,
     external_frames |-> 0,
     frame_references |-> <<>>,
     frame_saved_as |-> <<>>,
     frame_external_to_internal |-> <<>>,
     frame_required |-> <<>>,
     \* observer, not a field of the struct: the internal indices of the
     \* frames that this pass has skipped without decoding them
     undecoded |-> {},
     aborted |-> FALSE]

\* JxlDecoderReset assigns every field but those of the member jpeg_decoder
JxlDecoderReset(d) ==
    [JxlDecoderCreate EXCEPT !.jpeg_inside_box = d.jpeg_inside_box,
                             !.jpeg_box_size = d.jpeg_box_size,
                             !.jpeg_buffered = d.jpeg_buffered]

\* a result of a step of ProcessInput: the decoder and the status returned,
\* or CONT when the code falls through to its next statement
Ret(d, r) == [d |-> d, r |-> r]

\* JXL_ASSERT failed: the process is gone
Abort(d) == Ret([d EXCEPT !.aborted = TRUE], "Abort")

----------------------------------------------------------------------------
(* The inner decoder, seen through its calls *)

\* What a read of codestream bytes [a, b) of the window gives: "need" when
\* the window ends before b, "bad" when a byte is not the reference byte.
ReadBytes(in, a, b) ==
    IF Len(in) < b THEN "need"
    ELSE IF \E i \in a..(b - 1) : in[i + 1] # RefByte(i) THEN "bad"
    ELSE "ok"

\* ReadBundle: CanRead, then Bundle::Read
ReadBundle(in, a, b) ==
    LET s == ReadBytes(in, a, b)
    IN IF s = "need" THEN JXL_DEC_NEED_MORE_INPUT
       ELSE IF s = "bad" THEN JXL_DEC_ERROR
       ELSE JXL_DEC_SUCCESS

\* the frame that starts at codestream offset pos: its index, or 0
FrameAt(pos) ==
    IF \E k \in 1..Len(Img.frames) : FrameOff(Img, k) = pos
    THEN CHOOSE k \in 1..Len(Img.frames) : FrameOff(Img, k) = pos
    ELSE 0

\* the preview frame: 1 byte of header, 1 of TOC, the rest one section
PreviewFrame ==
    Frame(1, <<Img.preview_size - 2>>, TRUE, 0, 0, 0, FALSE, FALSE, 1, 1, 1, 1)

JxlDecoderReadBasicInfo(d, in) ==
    LET sg == ReadSignature(in, Len(in), 0)
        st == ReadBundle(in, 2, Img.bi_end)
    IN IF sg.sig = JXL_SIG_NOT_ENOUGH_BYTES THEN Ret(d, JXL_DEC_NEED_MORE_INPUT)
       ELSE IF sg.sig = JXL_SIG_CONTAINER THEN Ret(d, JXL_DEC_ERROR)
       ELSE IF sg.sig # JXL_SIG_CODESTREAM THEN Ret(d, JXL_DEC_ERROR)
       ELSE IF st # JXL_DEC_SUCCESS THEN Ret(d, st)
       ELSE LET d1 == [d EXCEPT !.got_basic_info = TRUE,
                                !.basic_info_size_hint = 0]
            IN IF ~CheckSizeLimit(Img.xsize, Img.ysize)
               THEN Ret(d1, JXL_DEC_ERROR)
               ELSE Ret(d1, JXL_DEC_SUCCESS)

JxlDecoderReadAllHeaders(d, in) ==
    LET sg == ReadSignature(in, Len(in), 0)
        st == ReadBundle(in, 2, Img.hdr_end)
    IN IF sg.sig = JXL_SIG_CONTAINER THEN Ret(d, JXL_DEC_ERROR)
       ELSE IF sg.sig # JXL_SIG_CODESTREAM THEN Ret(d, JXL_DEC_ERROR)
       ELSE IF st # JXL_DEC_SUCCESS THEN Ret(d, st)
       ELSE Ret([d EXCEPT !.got_all_headers = TRUE,
                          !.frame_start = Img.hdr_end],
                JXL_DEC_SUCCESS)

\* The dimensions DecodeFrameHeader leaves in the header it filled.  A
\* header cut short holds the fields read so far and defaults for the rest:
\* cut before the crop flag it describes a frame of the full image size
\* (cut = "early"), cut after it the frame's own size (cut = "late").
FrameDim(f, status, cut) ==
    IF status = "ok" \/ (status = "need" /\ cut = "late")
    THEN [x |-> f.pxsize, y |-> f.pysize]
    ELSE [x |-> Img.pxsize, y |-> Img.pysize]

\* Returns the status, the frame index read and the total frame size.
ParseFrameHeader(in, pos, is_preview, cut) ==
    LET Result(r, k, frame_size) == [r |-> r, k |-> k, frame_size |-> frame_size]
        Decoded(k, f, status) ==
            IF ~CheckSizeLimit(FrameDim(f, status, cut).x,
                               FrameDim(f, status, cut).y)
            THEN Result(JXL_DEC_ERROR, NULL, 0)
            ELSE IF status = "need" THEN Result(JXL_DEC_NEED_MORE_INPUT, NULL, 0)
            ELSE IF status = "bad" THEN Result(JXL_DEC_ERROR, NULL, 0)
            ELSE IF ReadBytes(in, pos + f.fh, pos + f.hdr) = "need"
            THEN Result(JXL_DEC_NEED_MORE_INPUT, NULL, 0)
            ELSE IF ReadBytes(in, pos + f.fh, pos + f.hdr) = "bad"
            THEN Result(JXL_DEC_ERROR, NULL, 0)
            ELSE Result(JXL_DEC_SUCCESS, k, f.size)
        Header(k, f) ==
            Decoded(k, f, IF is_preview \/ k # 0
                          THEN ReadBytes(in, pos, pos + f.fh) ELSE "bad")
        At(k) == Header(k, IF is_preview \/ k = 0 THEN PreviewFrame
                           ELSE Img.frames[k])
    IN IF pos >= Len(in) THEN Result(JXL_DEC_NEED_MORE_INPUT, NULL, 0)
       ELSE At(IF is_preview THEN 0 ELSE FrameAt(pos))

----------------------------------------------------------------------------
(* JxlDecoderProcessInternal: the header phases *)

\* a variant that leaves JXL_DEC_BASIC_INFO among the events wanted
ProcessBasicInfo_KeepsEvent(d, in) ==
    LET Deliver(s) ==
            IF s.r # JXL_DEC_SUCCESS THEN s
            ELSE IF JXL_DEC_BASIC_INFO \in s.d.events_wanted
            THEN Ret(s.d, JXL_DEC_BASIC_INFO)
            ELSE Ret(s.d, CONT)
    IN Deliver(IF ~d.got_basic_info THEN JxlDecoderReadBasicInfo(d, in)
               ELSE Ret(d, JXL_DEC_SUCCESS))

\* basic info is read whatever the events wanted; BASIC_INFO is delivered once
ProcessBasicInfo(d, in) ==
    LET Deliver(s) ==
            IF s.r # JXL_DEC_SUCCESS THEN s
            ELSE IF JXL_DEC_BASIC_INFO \in s.d.events_wanted
            THEN Ret([s.d EXCEPT !.events_wanted = @ \ {JXL_DEC_BASIC_INFO}],
                     JXL_DEC_BASIC_INFO)
            ELSE Ret(s.d, CONT)
    IN Deliver(IF ~d.got_basic_info THEN JxlDecoderReadBasicInfo(d, in)
               ELSE Ret(d, JXL_DEC_SUCCESS))

\* the remaining codestream headers
ProcessAllHeaders(s, in) ==
    LET Go(t) == IF t.r # JXL_DEC_SUCCESS THEN t ELSE Ret(t.d, CONT)
    IN IF s.r # CONT THEN s
       ELSE Go(IF ~s.d.got_all_headers THEN JxlDecoderReadAllHeaders(s.d, in)
               ELSE Ret(s.d, JXL_DEC_SUCCESS))

\* a variant that does not look at metadata.m.extensions
ProcessExtensions_Unconditional(s) ==
    IF s.r # CONT THEN s
    ELSE IF JXL_DEC_EXTENSIONS \in s.d.events_wanted
    THEN Ret([s.d EXCEPT !.events_wanted = @ \ {JXL_DEC_EXTENSIONS}],
             JXL_DEC_EXTENSIONS)
    ELSE Ret(s.d, CONT)

ProcessExtensions(s) ==
    LET d1 == [s.d EXCEPT !.events_wanted = @ \ {JXL_DEC_EXTENSIONS}]
    IN IF s.r # CONT THEN s
       ELSE IF JXL_DEC_EXTENSIONS \in s.d.events_wanted
       THEN IF Img.extensions # 0 THEN Ret(d1, JXL_DEC_EXTENSIONS)
            ELSE Ret(d1, CONT)
       ELSE Ret(s.d, CONT)

\* a variant that leaves JXL_DEC_COLOR_ENCODING among the events wanted
ProcessColorEncoding_KeepsEvent(s) ==
    IF s.r # CONT THEN s
    ELSE IF JXL_DEC_COLOR_ENCODING \in s.d.events_wanted
    THEN Ret(s.d, JXL_DEC_COLOR_ENCODING)
    ELSE Ret(s.d, CONT)

ProcessColorEncoding(s) ==
    IF s.r # CONT THEN s
    ELSE IF JXL_DEC_COLOR_ENCODING \in s.d.events_wanted
    THEN Ret([s.d EXCEPT !.events_wanted = @ \ {JXL_DEC_COLOR_ENCODING}],
             JXL_DEC_COLOR_ENCODING)
    ELSE Ret(s.d, CONT)

\* the preview frame, parsed when a frame or image event is wanted
ProcessPreview(s, in, cut) ==
    LET d == [s.d EXCEPT !.post_headers = TRUE]
        parse_preview ==
            d.events_wanted \cap
              {JXL_DEC_PREVIEW_IMAGE, JXL_DEC_FRAME, JXL_DEC_FULL_IMAGE} # {}
        want_preview == JXL_DEC_PREVIEW_IMAGE \in d.events_wanted
        pos == d.frame_start
        dh == [d EXCEPT !.frame_header = 0]
        Parsed(h) ==
            LET done == [dh EXCEPT !.frame_start = @ + h.frame_size,
                                   !.got_preview_image = TRUE]
            IN IF h.r # JXL_DEC_SUCCESS THEN Ret(dh, h.r)
               ELSE IF OutOfBounds(pos, h.frame_size, Len(in))
               THEN Ret(dh, JXL_DEC_NEED_MORE_INPUT)
               ELSE IF want_preview /\ ~d.preview_out_buffer_set
               THEN Ret(dh, JXL_DEC_NEED_PREVIEW_OUT_BUFFER)
               ELSE IF ReadBytes(in, pos, pos + h.frame_size) # "ok"
               THEN Ret(dh, JXL_DEC_ERROR)
               ELSE IF want_preview THEN Ret(done, JXL_DEC_PREVIEW_IMAGE)
               ELSE Ret(done, CONT)
    IN IF s.r # CONT THEN s
       ELSE IF d.got_preview_image THEN Ret(d, CONT)
       ELSE IF ~Img.have_preview
       THEN Ret([d EXCEPT !.got_preview_image = TRUE], CONT)
       ELSE IF ~parse_preview
       THEN Ret([d EXCEPT !.got_preview_image = TRUE], CONT)
       ELSE Parsed(ParseFrameHeader(in, pos, TRUE, cut))

----------------------------------------------------------------------------
(* JxlDecoderProcessInternal: the frame stages.  Each returns the decoder  *)
(* and a status, CONT to fall through, or "loop" for the loop's continue.  *)

Pow2(s) == 2 ^ s
HasBit(mask, s) == (mask \div Pow2(s)) % 2 = 1

\* A DC frame that is not marked as required counts as referenceable.
Referenceable_IgnoresDC(f, d, internal_frame_index) ==
    IF internal_frame_index < Len(d.frame_required)
       /\ d.frame_required[internal_frame_index + 1] = 0
    THEN FALSE
    ELSE f.can_ref

\* No frame counts as referenceable.
Referenceable_Never(f, d, internal_frame_index) == FALSE

\* Whether the frame of a skipped still could be referenced by a future
\* frame: it is saved for blending or patches, or is a DC frame, unless
\* frame_required says that the frame sought does not need it.
Referenceable(f, d, internal_frame_index) ==
    IF internal_frame_index < Len(d.frame_required)
       /\ d.frame_required[internal_frame_index + 1] = 0
    THEN FALSE
    ELSE f.can_ref \/ f.dc

\* kHeader: parse the frame header, count the frame, decide about skipping
StageHeader(d, in, cut) ==
    LET pos == d.frame_start - d.codestream_pos
        internal_frame_index == d.internal_frames
        external_frame_index == d.external_frames
        \* the frame is counted and the tables of Rewind are extended
        Counted(f, d3, push_ext, push_int) ==
            LET referenceable == Referenceable(f, d3, internal_frame_index)
            IN IF push_ext /\ Len(d3.frame_external_to_internal)
                                 # external_frame_index + 1
               THEN Abort(d3)
               ELSE IF push_int
                       /\ (Len(d3.frame_saved_as) # internal_frame_index + 1
                           \/ Len(d3.frame_references) # internal_frame_index + 1)
               THEN Abort(d3)
               ELSE IF d3.skipping_frame /\ ~referenceable
               THEN Ret([d3 EXCEPT !.frame_stage = kHeader,
                                   !.frame_start = @ + d3.frame_size,
                                   !.undecoded = @ \cup {internal_frame_index}],
                        "loop")
               ELSE IF JXL_DEC_FRAME \in d3.events_wanted /\ d3.is_last_of_still
                       /\ ~d3.skipping_frame
               THEN Ret(d3, JXL_DEC_FRAME)
               ELSE Ret(d3, CONT)
        Parsed(h, f, push_ext, push_int) ==
            LET is_last_total == f.is_last
                is_last_of_still == is_last_total \/ f.duration > 0
            IN Counted(f,
                 [d EXCEPT
                    !.frame_header = h.k,
                    !.frame_size = h.frame_size,
                    !.is_last_total = is_last_total,
                    !.is_last_of_still = is_last_of_still,
                    !.external_frames = IF is_last_of_still THEN @ + 1 ELSE @,
                    !.internal_frames = @ + 1,
                    !.frame_stage = kTOC,
                    !.skipping_frame = d.skip_frames > 0,
                    !.skip_frames = IF d.skip_frames > 0 /\ is_last_of_still
                                    THEN @ - 1 ELSE @,
                    !.frame_external_to_internal =
                        IF push_ext THEN Append(@, internal_frame_index) ELSE @,
                    !.frame_saved_as =
                        IF push_int THEN Append(@, f.saved_as) ELSE @,
                    !.frame_references =
                        IF push_int THEN Append(@, 255) ELSE @],
                 push_ext, push_int)
        Header(h) ==
            IF h.r # JXL_DEC_SUCCESS
            THEN Ret([d EXCEPT !.frame_header = NULL], h.r)
            ELSE Parsed(h, Img.frames[h.k],
                        external_frame_index >= Len(d.frame_external_to_internal),
                        internal_frame_index >= Len(d.frame_saved_as))
    IN IF d.frame_stage # kHeader THEN Ret(d, CONT)
       ELSE IF pos >= Len(in) THEN Ret(d, JXL_DEC_NEED_MORE_INPUT)
       ELSE Header(ParseFrameHeader(in, pos, FALSE, cut))

\* kTOC: create the frame decoder and the section manager
StageTOC(s, in) ==
    LET d == s.d
        pos == d.frame_start - d.codestream_pos
        f == Img.frames[d.frame_header]
        d1 == [d EXCEPT !.ib = TRUE, !.frame_dec = TRUE]
        init == ReadBytes(in, pos, pos + f.hdr)
        d2 == [d1 EXCEPT !.sections = [i \in 1..Len(f.secs) |-> FALSE],
                         !.br_open = FALSE]
    IN IF ~(s.r = CONT /\ d.frame_stage = kTOC) THEN s
       ELSE IF pos >= Len(in) THEN Ret(d, JXL_DEC_NEED_MORE_INPUT)
       ELSE IF init # "ok" THEN Ret(d1, JXL_DEC_ERROR)
       ELSE IF JXL_DEC_FULL_IMAGE \in d2.events_wanted
       THEN Ret([d2 EXCEPT !.frame_dec_in_progress = TRUE,
                           !.frame_stage = kFull], CONT)
       ELSE Ret(d2, CONT)

\* offset of section i (1-based) from sections_begin
SectionOffset(f, i) == SumSeq(SubSeq(f.secs, 1, i - 1))

NumReceived(d) == Cardinality({i \in DOMAIN d.sections : d.sections[i]})

\* Sections::SetInput: the sections that now lie wholly in the window
SectionsSetInput(d, f, size) ==
    [i \in DOMAIN d.sections |->
        d.sections[i]
        \/ ~OutOfBounds3(f.hdr, SectionOffset(f, i), f.secs[i], size)]

\* a variant that asks for the buffer on every frame, not only on the last
\* frame of a still
NeedsImageOutBuffer_AnyFrame(d) ==
    /\ JXL_DEC_FULL_IMAGE \in d.events_wanted
    /\ ~d.image_out_buffer_set
    /\ ~d.skipping_frame

\* the pixels of this frame will be wanted and there is nowhere to put them
NeedsImageOutBuffer(d) ==
    /\ JXL_DEC_FULL_IMAGE \in d.events_wanted
    /\ ~d.image_out_buffer_set
    /\ d.is_last_of_still
    /\ ~d.skipping_frame

\* kFull: decode the sections received so far.  cpu is used_cpu_base_.
StageFull(s, in, cpu) ==
    LET d == s.d
        pos == d.frame_start - d.codestream_pos
        f == Img.frames[d.frame_header]
        received == SectionsSetInput(d, f, Len(in) - pos)
        d1 == [d EXCEPT !.sections = received,
                        !.br_open = \E i \in DOMAIN received : received[i]]
        num_pixels == f.xsize * f.ysize
        cpu1 == IF cpu_limit_base_ # 0 THEN cpu + num_pixels ELSE cpu
        fatal == \E i \in DOMAIN received :
                    /\ received[i]
                    /\ ReadBytes(in, pos + f.hdr + SectionOffset(f, i),
                                 pos + f.hdr + SectionOffset(f, i) + f.secs[i])
                       # "ok"
        d2 == [d1 EXCEPT !.br_open = FALSE]
        internal_index == d.internal_frames - 1
    IN IF ~(s.r = CONT /\ d.frame_stage = kFull)
       THEN [d |-> d, r |-> s.r, cpu |-> cpu]
       ELSE IF NeedsImageOutBuffer(d)
       THEN [d |-> d, r |-> JXL_DEC_NEED_IMAGE_OUT_BUFFER, cpu |-> cpu]
       ELSE IF pos >= Len(in)
       THEN [d |-> d, r |-> JXL_DEC_NEED_MORE_INPUT, cpu |-> cpu]
       ELSE IF d.br_open /\ NumReceived(d) > 0
       THEN [d |-> Abort(d).d, r |-> "Abort", cpu |-> cpu]
       ELSE IF cpu_limit_base_ # 0 /\ cpu1 > cpu_limit_base_
       THEN [d |-> d1, r |-> JXL_DEC_ERROR, cpu |-> cpu1]
       ELSE IF fatal
       THEN [d |-> d2, r |-> JXL_DEC_ERROR, cpu |-> cpu1]
       ELSE IF NumReceived(d2) < Len(f.secs)
       THEN [d |-> d2, r |-> JXL_DEC_NEED_MORE_INPUT, cpu |-> cpu1]
       ELSE IF ~(Len(d2.frame_references) > internal_index)
       THEN [d |-> Abort(d2).d, r |-> "Abort", cpu |-> cpu1]
       ELSE [d |-> [d2 EXCEPT !.frame_references[internal_index + 1] =
                                    f.references,
                              !.frame_dec_in_progress = FALSE,
                              !.frame_stage = kFullOutput],
             r |-> CONT, cpu |-> cpu1]

\* a variant that does not restore the per-frame events for the next still
StageFullOutput_NoRearm(s) ==
    LET d == s.d
        rfi == d.is_last_of_still /\ JXL_DEC_FULL_IMAGE \in d.events_wanted
        d1 == IF d.is_last_of_still
              THEN [d EXCEPT !.events_wanted = @ \ {JXL_DEC_FULL_IMAGE}]
              ELSE d
        d2 == IF rfi /\ d1.image_out_buffer_set
              THEN [d1 EXCEPT !.image_out_buffer_set = FALSE]
              ELSE d1
    IN IF ~(s.r = CONT /\ d.frame_stage = kFullOutput)
       THEN [d |-> d, r |-> s.r, cpu |-> s.cpu, rfi |-> FALSE]
       ELSE [d |-> d2, r |-> CONT, cpu |-> s.cpu, rfi |-> rfi]

\* kFullOutput: hand the pixels of a finished still to the caller.  rfi is
\* return_full_image.
StageFullOutput(s) ==
    LET d == s.d
        rfi == d.is_last_of_still /\ JXL_DEC_FULL_IMAGE \in d.events_wanted
        d1 == IF d.is_last_of_still
              THEN [d EXCEPT !.events_wanted =
                        (@ \ {JXL_DEC_FULL_IMAGE})
                        \cup (d.orig_events_wanted
                                \cap {JXL_DEC_FULL_IMAGE, JXL_DEC_FRAME})]
              ELSE d
        d2 == IF rfi /\ d1.image_out_buffer_set
              THEN [d1 EXCEPT !.image_out_buffer_set = FALSE]
              ELSE d1
    IN IF ~(s.r = CONT /\ d.frame_stage = kFullOutput)
       THEN [d |-> d, r |-> s.r, cpu |-> s.cpu, rfi |-> FALSE]
       ELSE [d |-> d2, r |-> CONT, cpu |-> s.cpu, rfi |-> rfi]

\* the end of a frame that returns FullImage for a skipped still too
StageNextFrame_IgnoresSkipping(s) ==
    LET d1 == [s.d EXCEPT !.ib = FALSE,
                          !.frame_stage = kHeader,
                          !.frame_start = @ + s.d.frame_size]
    IN IF s.r # CONT THEN [d |-> s.d, r |-> s.r, cpu |-> s.cpu]
       ELSE IF s.rfi THEN [d |-> d1, r |-> JXL_DEC_FULL_IMAGE, cpu |-> s.cpu]
       ELSE [d |-> d1, r |-> "loop", cpu |-> s.cpu]

\* the end of a frame that keeps the image bundle
StageNextFrame_KeepsBundle(s) ==
    LET d1 == [s.d EXCEPT !.frame_stage = kHeader,
                          !.frame_start = @ + s.d.frame_size]
    IN IF s.r # CONT THEN [d |-> s.d, r |-> s.r, cpu |-> s.cpu]
       ELSE IF s.rfi /\ ~s.d.skipping_frame
       THEN [d |-> d1, r |-> JXL_DEC_FULL_IMAGE, cpu |-> s.cpu]
       ELSE [d |-> d1, r |-> "loop", cpu |-> s.cpu]

\* the end of a loop iteration: drop the image bundle, go to the next frame
StageNextFrame(s) ==
    LET d == s.d
        d1 == [d EXCEPT !.ib = FALSE,
                        !.frame_stage = kHeader,
                        !.frame_start = @ + d.frame_size]
    IN IF s.r # CONT THEN [d |-> d, r |-> s.r, cpu |-> s.cpu]
       ELSE IF s.rfi /\ ~d.skipping_frame
       THEN [d |-> d1, r |-> JXL_DEC_FULL_IMAGE, cpu |-> s.cpu]
       ELSE [d |-> d1, r |-> "loop", cpu |-> s.cpu]

\* one iteration of the frame loop
FrameIteration(d, in, cut, cpu) ==
    StageNextFrame(
        StageFullOutput(
            StageFull(StageTOC(StageHeader(d, in, cut), in), in, cpu)))

\* "for (;;)" over the frames, ended by a return or by one of the two breaks
RECURSIVE FrameLoop(_, _, _, _)
FrameLoop(d, in, cut, cpu) ==
    LET Continue(s) ==
            IF s.r = "loop" THEN FrameLoop(s.d, in, cut, s.cpu) ELSE s
    IN IF d.events_wanted \cap {JXL_DEC_FULL_IMAGE, JXL_DEC_FRAME} = {}
       THEN [d |-> d, r |-> "break", cpu |-> cpu]
       ELSE IF d.frame_stage = kHeader /\ d.is_last_total
       THEN [d |-> d, r |-> "break", cpu |-> cpu]
       ELSE Continue(FrameIteration(d, in, cut, cpu))

\* a variant that reports success and leaves the stage as it was
Finish_KeepsStage(l) ==
    IF l.r = "break" THEN [d |-> l.d, r |-> JXL_DEC_SUCCESS, cpu |-> l.cpu]
    ELSE l

\* after the loop: everything is done
Finish(l) ==
    IF l.r = "break"
    THEN [d |-> [l.d EXCEPT !.stage = kFinished], r |-> JXL_DEC_SUCCESS,
          cpu |-> l.cpu]
    ELSE l

\* the frame loop is entered when the headers and the preview are done
Frames(p, in, cut, cpu) ==
    IF p.r = CONT THEN FrameLoop(p.d, in, cut, cpu)
    ELSE [d |-> p.d, r |-> p.r, cpu |-> cpu]

\* Returns the decoder, the status and used_cpu_base_.
JxlDecoderProcessInternal(d, in, cut, cpu) ==
    Finish(
      Frames(
        ProcessPreview(
          ProcessColorEncoding(
            ProcessExtensions(
              ProcessAllHeaders(ProcessBasicInfo(d, in), in))),
          in, cut),
        in, cut, cpu))

----------------------------------------------------------------------------
(* JxlDecoderProcessInput: the container box walker *)

\* the model's size_t: byte offsets of the files stay far below it
SIZE_MAX == 2147483647

SumOverflows(a, b, c) == a > SIZE_MAX - b \/ a + b > SIZE_MAX - c

\* the bytes the caller's buffer holds from *next_in on
Input(d) ==
    IF d.next_in = NULL THEN <<>>
    ELSE SubSeq(FileBytes, d.next_in + 1, d.next_in + d.avail_in)

\* dec->file_pos += n; *next_in += n; *avail_in -= n
Consume(d, n) ==
    [d EXCEPT !.file_pos = @ + n, !.next_in = @ + n, !.avail_in = @ - n]

\* dec->codestream.insert(end, *next_in + a, *next_in + b)
AppendCodestream(d, a, b) ==
    [d EXCEPT !.codestream = @ \o SubSeq(Input(d), a + 1, b)]

\* a - b in size_t: a negative difference wraps to a huge number
SizeDiff(a, b) == IF a >= b THEN a - b ELSE SIZE_MAX

\* x as a size_t: a negative result of unsigned arithmetic wraps around
SizeWrap(x) == IF x >= 0 THEN x ELSE (SIZE_MAX + x) + 1

\* the rest of a box that is being skipped
SkipBox(d) ==
    LET remaining == SizeDiff(d.box_end, d.file_pos)
    IN IF ~d.skip_box THEN Ret(d, CONT)
       ELSE IF d.avail_in < remaining
       THEN Ret(Consume(d, d.avail_in), JXL_DEC_NEED_MORE_INPUT)
       ELSE Ret([Consume(d, remaining) EXCEPT !.skip_box = FALSE], CONT)

\* the tail of the current codestream part, when streaming and further
\* boxes may follow it in the input
SpliceCodestream(a) ==
    LET d == a.d
        csize == Min(d.avail_in, SizeDiff(d.codestream_end, d.file_pos))
    IN IF a.r # CONT THEN a
       ELSE IF /\ d.first_codestream_seen /\ ~d.last_codestream_seen
               /\ d.codestream_end # 0 /\ d.file_pos < d.codestream_end
               /\ d.file_pos + d.avail_in >= d.codestream_end
               /\ d.codestream # <<>>
       THEN Ret(Consume(AppendCodestream(d, 0, csize), csize), CONT)
       ELSE a

\* JxlToJpegDecoder::Process for a box of known size: take the bytes of the
\* box that are there; the reconstruction data is decoded once all are in.
JpegProcess(d) ==
    LET take == Min(d.avail_in, d.jpeg_box_size - d.jpeg_buffered)
        d1 == [d EXCEPT !.next_in = @ + take, !.avail_in = @ - take,
                        !.jpeg_buffered = @ + take]
    IN IF d1.jpeg_buffered = d1.jpeg_box_size
       THEN Ret([d1 EXCEPT !.jpeg_inside_box = FALSE], JXL_DEC_JPEG_RECONSTRUCTION)
       ELSE Ret(d1, JXL_DEC_NEED_MORE_INPUT)

\* the caller of Process: the event is returned if wanted, else go on
JpegBox(d) ==
    LET Processed(s) ==
            IF s.r = JXL_DEC_JPEG_RECONSTRUCTION
            THEN IF JXL_DEC_JPEG_RECONSTRUCTION \in s.d.events_wanted
                 THEN Ret([s.d EXCEPT !.events_wanted =
                                          @ \ {JXL_DEC_JPEG_RECONSTRUCTION}],
                          JXL_DEC_JPEG_RECONSTRUCTION)
                 ELSE Ret(s.d, CONT)
            ELSE s
    IN Processed(JpegProcess(d))

\* a jxlc or jxlp box whose header ends at pos (box_size, contents_size and
\* box_start as parsed).  Returns a status, "break", or "next" with the pos
\* at which the loop goes on.
CodestreamBox(d, type, pos, box_start, box_size, contents_size) ==
    LET in == Input(d)
        size == d.avail_in
        is_jxlp == type = TypeJxlp
        pos1 == IF is_jxlp THEN pos + 4 ELSE pos
        codestream_size == IF is_jxlp THEN contents_size - 4 ELSE contents_size
        last_codestream == IF is_jxlp THEN in[pos + 1] >= 128 ELSE TRUE
        d1 == [d EXCEPT !.first_codestream_seen = TRUE,
                        !.last_codestream_seen = @ \/ last_codestream]
        earlier == d.codestream_begin # 0 /\ d.codestream = <<>>
        begin0 == d.codestream_begin - d.file_pos
        end0 == SizeDiff(d.codestream_end, d.file_pos)
        avail_codestream_size ==
            IF box_size = 0 THEN size - pos1
            ELSE Min(size - pos1, box_size - pos1 + box_start)
        \* d3: the box is noted as the current codestream part
        Noted(d3) ==
            LET end1 == Min(d3.avail_in, pos1 + avail_codestream_size)
                d4 == Consume(AppendCodestream(d3, pos1, end1),
                              pos1 + (end1 - pos1))
                d5 == Consume(d3, pos1)
            IN IF d3.codestream # <<>>
               THEN IF d4.avail_in = 0 THEN [d |-> d4, r |-> "break", pos |-> 0]
                    ELSE [d |-> d4, r |-> "next", pos |-> 0]
               ELSE IF avail_codestream_size = d5.avail_in
               THEN [d |-> d5, r |-> "break", pos |-> 0]
               ELSE [d |-> d5, r |-> "next", pos |-> avail_codestream_size]
        \* d2: the earlier part, still in the input, is copied first
        Copied(d2) ==
            Noted([d2 EXCEPT
                     !.codestream_begin = d2.file_pos + pos1,
                     !.codestream_end =
                         IF box_size = 0 THEN 0
                         ELSE d2.file_pos + pos1 + codestream_size])
    IN IF is_jxlp /\ OutOfBounds(pos, 4, size)
       THEN [d |-> d, r |-> JXL_DEC_NEED_MORE_INPUT, pos |-> 0]
       ELSE IF is_jxlp /\ box_size # 0 /\ contents_size < 4
       THEN [d |-> d, r |-> JXL_DEC_ERROR, pos |-> 0]
       ELSE IF ~last_codestream /\ box_size = 0
       THEN [d |-> d, r |-> JXL_DEC_ERROR, pos |-> 0]
       ELSE IF earlier /\ d.codestream_begin < d.file_pos
       THEN [d |-> d1, r |-> JXL_DEC_ERROR, pos |-> 0]
       ELSE IF earlier /\ ~(end0 <= d.avail_in)
       THEN [d |-> Abort(d1).d, r |-> "Abort", pos |-> 0]
       ELSE Copied(IF earlier THEN AppendCodestream(d1, begin0, end0) ELSE d1)

\* a jbrd box, when JPEG reconstruction is subscribed
JbrdBox(d, pos, box_size, contents_size) ==
    LET Processed(s) ==
            IF s.r = CONT THEN [d |-> s.d, r |-> "next", pos |-> 0]
            ELSE [d |-> s.d, r |-> s.r, pos |-> 0]
    IN Processed(JpegBox(Consume([d EXCEPT !.jpeg_inside_box = TRUE,
                                            !.jpeg_box_size = contents_size,
                                            !.jpeg_buffered = 0], pos)))

\* a jbrd box begun in an earlier call goes on
JpegBoxInProgress(b) ==
    IF b.r = CONT /\ b.d.jpeg_inside_box THEN JpegBox(b.d) ELSE b

\* any other box: skipped, across calls if its contents are not all there
UnknownBox(d, pos, box_size, contents_size) ==
    LET size == d.avail_in
        d1 == Consume([d EXCEPT !.skip_box = TRUE], pos)
        d2 == [d1 EXCEPT !.basic_info_size_hint =
                  SizeWrap(InitialBasicInfoSizeHint + pos + contents_size
                           - d1.file_pos)]
        pos1 == pos + contents_size
    IN IF box_size = 0
       THEN IF ~d.first_codestream_seen
            THEN [d |-> d, r |-> JXL_DEC_ERROR, pos |-> 0]
            ELSE [d |-> d, r |-> "break", pos |-> 0]
       ELSE IF OutOfBounds(pos, contents_size, size)
       THEN [d |-> d2, r |-> JXL_DEC_NEED_MORE_INPUT, pos |-> 0]
       ELSE IF ~(d.codestream = <<>> /\ d.first_codestream_seen)
       THEN [d |-> Consume(d, pos1), r |-> "next", pos |-> 0]
       ELSE [d |-> d, r |-> "next", pos |-> pos1]

\* A variant that takes every size.
InvalidBoxSize_Never(box_size, header_size) == FALSE

\* A variant that takes size 0 for a size too.
InvalidBoxSize_Zero(box_size, header_size) == box_size < header_size

\* "invalid box size": a size other than 0 that the header does not fit in
InvalidBoxSize(box_size, header_size) ==
    box_size > 0 /\ box_size < header_size

\* one box header at pos, then the branch of its type
BoxStep(d, pos) ==
    LET in == Input(d)
        size == d.avail_in
        box_start == pos
        size32 == LoadBE32(in, pos)
        type == SubSeq(in, pos + 5, pos + 8)
        ext == size32 = 1
        pos1 == IF ext THEN pos + 16 ELSE pos + 8
        box_size == IF ext THEN LoadBE64(in, pos + 8) ELSE size32
        header_size == pos1 - box_start
        contents_size == IF box_size = 0 THEN 0 ELSE box_size - pos1 + box_start
        d1 == [d EXCEPT !.box_begin = box_start,
                        !.box_end = d.file_pos + box_start + box_size]
    IN IF size = pos THEN [d |-> d, r |-> "break", pos |-> 0]
       ELSE IF OutOfBounds(pos, 8, size)
       THEN [d |-> [d EXCEPT !.basic_info_size_hint =
                        SizeWrap(InitialBasicInfoSizeHint + pos + 8 - d.file_pos)],
             r |-> JXL_DEC_NEED_MORE_INPUT, pos |-> 0]
       ELSE IF ext /\ OutOfBounds(pos + 8, 8, size)
       THEN [d |-> d, r |-> JXL_DEC_NEED_MORE_INPUT, pos |-> 0]
       ELSE IF InvalidBoxSize(box_size, header_size)
       THEN [d |-> d, r |-> JXL_DEC_ERROR, pos |-> 0]
       ELSE IF SumOverflows(d.file_pos, pos1, box_size)
       THEN [d |-> d, r |-> JXL_DEC_ERROR, pos |-> 0]
       ELSE IF type = TypeJxlc \/ type = TypeJxlp
       THEN CodestreamBox(d1, type, pos1, box_start, box_size, contents_size)
       ELSE IF JXL_DEC_JPEG_RECONSTRUCTION \in d.orig_events_wanted
               /\ type = TypeJbrd
       THEN JbrdBox(d1, pos1, box_size, contents_size)
       ELSE UnknownBox(d1, pos1, box_size, contents_size)

\* "for (;;)" over the boxes: ends with a status or with "break"
RECURSIVE BoxLoop(_, _)
BoxLoop(d, pos) ==
    LET Continue(s) ==
            IF s.r = "next" THEN BoxLoop(s.d, s.pos) ELSE Ret(s.d, s.r)
    IN Continue(BoxStep(d, pos))

\* the box loop runs while the input is not inside a codestream part
WalkBoxes(c) ==
    IF c.r # CONT THEN c
    ELSE IF /\ ~c.d.last_codestream_seen
            /\ (c.d.codestream_begin = 0
                \/ (c.d.codestream_end # 0
                    /\ c.d.file_pos >= c.d.codestream_end))
    THEN BoxLoop(c.d, 0)
    ELSE Ret(c.d, "break")

\* the codestream bytes at *next_in, without the boxes that follow them
CodestreamSize(d) ==
    IF d.codestream_end # 0
       /\ d.avail_in > SizeDiff(d.codestream_end, d.file_pos)
    THEN SizeDiff(d.codestream_end, d.file_pos)
    ELSE d.avail_in

\* everything ProcessInput does for a container before the codestream phase
ContainerPhase(d) ==
    LET Done(w) == IF w.r = "break" THEN Ret(w.d, CONT) ELSE w
    IN Done(WalkBoxes(JpegBoxInProgress(SpliceCodestream(SkipBox(d)))))

\* A variant that copies whatever the result.
StartsCopying_Always(d, result) == TRUE

\* A variant that never copies.
StartsCopying_Never(d, result) == FALSE

\* the input is copied to dec->codestream once the basic info is known and
\* more input is needed
StartsCopying(d, result) ==
    d.got_basic_info /\ result = JXL_DEC_NEED_MORE_INPUT

\* the codestream phase: streaming appends the input to dec->codestream,
\* one-shot decodes from the caller's buffer and starts copying once the
\* basic info is known and more input is needed
CodestreamPhase(c, cut, cpu) ==
    LET d == c.d
        csize == IF d.have_container THEN CodestreamSize(d) ELSE d.avail_in
        detected_streaming == d.codestream # <<>>
        copied == Consume(AppendCodestream(d, 0, csize), csize)
        Result(s) ==
            IF ~detected_streaming /\ StartsCopying(s.d, s.r)
            THEN [s EXCEPT !.d = Consume(AppendCodestream(s.d, 0, csize), csize)]
            ELSE s
    IN IF c.r # CONT THEN [d |-> d, r |-> c.r, cpu |-> cpu]
       ELSE Result(JxlDecoderProcessInternal(
                       IF detected_streaming THEN copied ELSE d,
                       IF detected_streaming THEN copied.codestream
                       ELSE SubSeq(Input(d), 1, csize),
                       cut, cpu))

\* ProcessInput up to the codestream phase: the stage, the signature and,
\* for a container, the boxes
BeforeCodestreamPhase(d0) ==
    LET d == IF d0.stage = kInited THEN [d0 EXCEPT !.stage = kStarted] ELSE d0
        sig == JxlSignatureCheck(Input(d), d.avail_in)
        d1 == IF d.got_signature THEN d
              ELSE [d EXCEPT !.got_signature = TRUE,
                             !.have_container = sig = JXL_SIG_CONTAINER]
    IN IF d.stage = kError THEN Ret(d, JXL_DEC_ERROR)
       ELSE IF d.stage = kFinished THEN Ret(d, JXL_DEC_ERROR)
       ELSE IF ~d.got_signature /\ sig = JXL_SIG_INVALID
       THEN Ret(d, JXL_DEC_ERROR)
       ELSE IF ~d.got_signature /\ sig = JXL_SIG_NOT_ENOUGH_BYTES
       THEN Ret(d, JXL_DEC_NEED_MORE_INPUT)
       ELSE IF d1.have_container THEN ContainerPhase(d1)
       ELSE Ret(d1, CONT)

\* JxlDecoderProcessInput
JxlDecoderProcessInput(d0, cut, cpu) ==
    CodestreamPhase(BeforeCodestreamPhase(d0), cut, cpu)

----------------------------------------------------------------------------
(* Frame dependencies, skipping and rewinding *)

kNumStorage == 8

Max(S) == CHOOSE x \in S : \A y \in S : y <= x

\* A variant that holds the first frame ever saved in a slot.
Storage_First(saved_as, s, i) ==
    LET c == {j \in 0..i : HasBit(saved_as[j + 1], s)}
    IN IF c = {} THEN Len(saved_as) ELSE CHOOSE j \in c : \A k \in c : j <= k

\* storage[s][i]: the last frame at or before i (0-based) saved in slot s,
\* or invalid (the number of frames)
Storage(saved_as, s, i) ==
    LET c == {j \in 0..i : HasBit(saved_as[j + 1], s)}
    IN IF c = {} THEN Len(saved_as) ELSE Max(c)

\* push each candidate not yet seen, in slot order
RECURSIVE PushRefs(_, _, _)
PushRefs(st, cands, invalid) ==
    IF cands = <<>> THEN st
    ELSE LET r == Head(cands)
         IN IF r = invalid \/ r \in st.seen
            THEN PushRefs(st, Tail(cands), invalid)
            ELSE PushRefs([stack |-> Append(st.stack, r),
                           seen |-> st.seen \cup {r},
                           result |-> Append(st.result, r)],
                          Tail(cands), invalid)

RECURSIVE DepLoop(_, _, _)
DepLoop(st, saved_as, references) ==
    IF st.stack = <<>> THEN st.result
    ELSE LET frame_index == st.stack[Len(st.stack)]
             st1 == [st EXCEPT !.stack = SubSeq(@, 1, Len(@) - 1)]
             invalid == Len(references)
             cands == [s \in 1..kNumStorage |->
                         IF HasBit(references[frame_index + 1], s - 1)
                         THEN Storage(saved_as, s - 1, frame_index - 1)
                         ELSE invalid]
         IN IF frame_index = 0 THEN DepLoop(st1, saved_as, references)
            ELSE DepLoop(PushRefs(st1, cands, invalid), saved_as, references)

GetFrameDependencies(index, saved_as, references) ==
    LET invalid == Len(references)
        st0 == [stack |-> <<index>>, seen |-> {index}, result |-> <<>>]
        cands == [s \in 1..kNumStorage |-> Storage(saved_as, s - 1, index)]
    IN DepLoop(PushRefs(st0, cands, invalid), saved_as, references)

Range(f) == {f[i] : i \in DOMAIN f}

\* JxlDecoderSkipFrames that sets the count instead of adding to it
JxlDecoderSkipFrames_Sets(d, amount) ==
    [d EXCEPT !.skip_frames = amount, !.frame_required = <<>>]

JxlDecoderSkipFrames(d, amount) ==
    LET d1 == [d EXCEPT !.skip_frames = @ + amount, !.frame_required = <<>>]
        next_frame == d.external_frames + d.skip_frames + amount
        Required(internal_index, deps) ==
            IF \E i \in DOMAIN deps : ~(deps[i] < internal_index + 1)
            THEN Abort(d1).d
            ELSE [d1 EXCEPT !.frame_required =
                     [i \in 1..(internal_index + 1) |->
                         IF (i - 1) \in Range(deps) THEN 1 ELSE 0]]
        Known(internal_index) ==
            IF internal_index < Len(d.frame_saved_as)
            THEN Required(internal_index,
                          GetFrameDependencies(internal_index, d.frame_saved_as,
                                               d.frame_references))
            ELSE d1
    IN IF next_frame < Len(d.frame_external_to_internal)
       THEN Known(d.frame_external_to_internal[next_frame + 1])
       ELSE d1

\* JxlDecoderRewind that does not put the saved vectors and options back
JxlDecoderRewind_ForgetsAll(d) ==
    [JxlDecoderReset(d) EXCEPT !.events_wanted = d.orig_events_wanted,
                               !.orig_events_wanted = d.orig_events_wanted]

\* JxlDecoderRewind that does not put frame_saved_as back
JxlDecoderRewind_DropsSavedAs(d) ==
    [JxlDecoderReset(d) EXCEPT
        !.keep_orientation = d.keep_orientation,
        !.events_wanted = d.orig_events_wanted,
        !.orig_events_wanted = d.orig_events_wanted,
        !.frame_references = d.frame_references,
        !.frame_external_to_internal = d.frame_external_to_internal,
        !.frame_required = d.frame_required]

JxlDecoderRewind(d) ==
    [JxlDecoderReset(d) EXCEPT
        !.keep_orientation = d.keep_orientation,
        !.events_wanted = d.orig_events_wanted,
        !.orig_events_wanted = d.orig_events_wanted,
        !.frame_references = d.frame_references,
        !.frame_saved_as = d.frame_saved_as,
        !.frame_external_to_internal = d.frame_external_to_internal,
        !.frame_required = d.frame_required]

----------------------------------------------------------------------------
(* The other API calls, each giving the decoder and the value returned *)

\* the statuses that are not informative events: the low 6 bits
NonEvents ==
    {JXL_DEC_ERROR, JXL_DEC_NEED_MORE_INPUT, JXL_DEC_NEED_PREVIEW_OUT_BUFFER,
     JXL_DEC_NEED_IMAGE_OUT_BUFFER}

\* JxlDecoderSubscribeEvents without the test of the stage
JxlDecoderSubscribeEvents_AnyStage(d, events_wanted) ==
    IF events_wanted \cap NonEvents # {} THEN Ret(d, JXL_DEC_ERROR)
    ELSE Ret([d EXCEPT !.events_wanted = events_wanted,
                       !.orig_events_wanted = events_wanted],
             JXL_DEC_SUCCESS)

JxlDecoderSubscribeEvents(d, events_wanted) ==
    IF d.stage # kInited THEN Ret(d, JXL_DEC_ERROR)
    ELSE IF events_wanted \cap NonEvents # {} THEN Ret(d, JXL_DEC_ERROR)
    ELSE Ret([d EXCEPT !.events_wanted = events_wanted,
                       !.orig_events_wanted = events_wanted],
             JXL_DEC_SUCCESS)

JxlDecoderSetKeepOrientation(d, keep_orientation) ==
    IF d.stage # kInited THEN Ret(d, JXL_DEC_ERROR)
    ELSE Ret([d EXCEPT !.keep_orientation = keep_orientation], JXL_DEC_SUCCESS)

\* JxlDecoderSetInput without the test of next_in
JxlDecoderSetInput_Overwrites(d, data, size) ==
    Ret([d EXCEPT !.next_in = data, !.avail_in = size], JXL_DEC_SUCCESS)

\* data is the file offset the buffer starts at
JxlDecoderSetInput(d, data, size) ==
    IF d.next_in # NULL THEN Ret(d, JXL_DEC_ERROR)
    ELSE Ret([d EXCEPT !.next_in = data, !.avail_in = size], JXL_DEC_SUCCESS)

\* JxlDecoderReleaseInput that keeps the buffer
JxlDecoderReleaseInput_KeepsBuffer(d) == Ret(d, d.avail_in)

JxlDecoderReleaseInput(d) ==
    Ret([d EXCEPT !.next_in = NULL, !.avail_in = 0], d.avail_in)

JxlDecoderSetPreviewOutBuffer(d) ==
    IF ~d.got_basic_info \/ ~Img.have_preview
       \/ JXL_DEC_PREVIEW_IMAGE \notin d.orig_events_wanted
    THEN Ret(d, JXL_DEC_ERROR)
    ELSE Ret([d EXCEPT !.preview_out_buffer_set = TRUE], JXL_DEC_SUCCESS)

JxlDecoderSetImageOutBuffer(d) ==
    IF ~d.got_basic_info \/ JXL_DEC_FULL_IMAGE \notin d.orig_events_wanted
    THEN Ret(d, JXL_DEC_ERROR)
    ELSE IF d.image_out_buffer_set /\ d.image_out_callback
    THEN Ret(d, JXL_DEC_ERROR)
    ELSE Ret([d EXCEPT !.image_out_buffer_set = TRUE,
                       !.image_out_buffer = TRUE], JXL_DEC_SUCCESS)

JxlDecoderSetImageOutCallback(d) ==
    IF d.image_out_buffer_set /\ d.image_out_buffer
    THEN Ret(d, JXL_DEC_ERROR)
    ELSE IF ~d.got_basic_info THEN Ret(d, JXL_DEC_NEED_MORE_INPUT)
    ELSE Ret([d EXCEPT !.image_out_buffer_set = TRUE,
                       !.image_out_callback = TRUE], JXL_DEC_SUCCESS)

----------------------------------------------------------------------------
(* The caller and what it has observed *)

\* the event sets a caller subscribes to
EventSets ==
    << InformativeEvents,
       {JXL_DEC_FULL_IMAGE},
       {JXL_DEC_COLOR_ENCODING, JXL_DEC_PREVIEW_IMAGE, JXL_DEC_FRAME},
       {JXL_DEC_BASIC_INFO, JXL_DEC_NEED_MORE_INPUT} >>

\* the two outcomes of a frame header that is only partly in the input
Cuts == {"early", "late"}

\* The caller of GetFrameDependencies before it has its tables.
NoDependencies == [called |-> FALSE]

\* The caller of the PNM codec before it has anything to parse or encode.
NoPnm == [mode |-> "none"]

\* The caller of JxlSignatureCheck before it has a buffer.
NoSignatureCheck == [buf |-> <<>>, called |-> FALSE, sig |-> JXL_SIG_NOT_ENOUGH_BYTES, pos |-> 0]

\* the statuses that come with a still: entries of the trace carry its index
PerStill == {JXL_DEC_FRAME, JXL_DEC_FULL_IMAGE, JXL_DEC_NEED_IMAGE_OUT_BUFFER}

NoHistory ==
    [trace |-> <<>>, failed |-> FALSE, finished |-> FALSE, stuck |-> FALSE,
     skips |-> 0, restarts |-> 0]

\* What the caller has seen after a ProcessInput call on decoder `before`
\* gave s: the statuses other than NeedMoreInput in order (an error or
\* a request for a buffer that is only repeated is listed once), whether a
\* decode error was returned,
\* whether Success was, and whether the call changed nothing at all.
Observe(h, before, s) ==
    LET entry == [e |-> s.r,
                  k |-> IF s.r \in PerStill THEN s.d.external_frames - 1
                        ELSE 0]
        again == /\ h.trace # <<>>
                 /\ h.trace[Len(h.trace)] = entry
                 /\ s.r \in NonEvents
        rec == s.r # JXL_DEC_NEED_MORE_INPUT /\ ~again
    IN [h EXCEPT
          !.trace = IF rec THEN Append(@, entry) ELSE @,
          !.failed = @ \/ (s.r = JXL_DEC_ERROR /\ before.stage # kFinished
                           /\ before.stage # kError),
          !.finished = @ \/ s.r = JXL_DEC_SUCCESS,
          !.stuck = s.r = JXL_DEC_NEED_MORE_INPUT
                    /\ s.d = [before EXCEPT !.stage = kStarted]]

\* the files decoded, each with the memory limit configured for the run
Scenarios ==
    {<<1, 0>>, <<4, 0>>, <<6, 0>>, <<7, 0>>, <<8, LimitPixels>>}

\* the offsets at which the caller's chunks end
FeedPoints == {0, FileLen} \cup Files[fid].cuts

Init ==
    /\ \E sc \in Scenarios : fid = sc[1] /\ memory_limit_base_ = sc[2]
    /\ used_cpu_base_ = 0
    /\ dec = JxlDecoderCreate
    /\ fed = 0
    /\ cpos = 0
    /\ op = "Create"
    /\ ret = JXL_DEC_SUCCESS
    /\ hist = NoHistory
    /\ sigchk = NoSignatureCheck
    /\ pnm = NoPnm
    /\ depchk = NoDependencies

Alive == ~dec.aborted

SubscribeEvents ==
    /\ Alive
    /\ \E i \in DOMAIN EventSets :
         LET s == JxlDecoderSubscribeEvents(dec, EventSets[i])
         IN /\ dec' = s.d
            /\ ret' = s.r
    /\ op' = "SubscribeEvents"
    /\ UNCHANGED <<depchk, pnm, sigchk, fid, memory_limit_base_, used_cpu_base_, fed, cpos, hist>>

\* the option is chosen, if at all, by the first call made on the decoder
SetKeepOrientation ==
    /\ Alive
    /\ op = "Create"
    /\ \E keep \in BOOLEAN :
         LET s == JxlDecoderSetKeepOrientation(dec, keep)
         IN dec' = s.d /\ ret' = s.r
    /\ op' = "SetKeepOrientation"
    /\ UNCHANGED <<depchk, pnm, sigchk, fid, memory_limit_base_, used_cpu_base_, fed, cpos, hist>>

\* the caller offers the bytes it still holds and the next bytes of the
\* file, up to one of the offsets in points
SetInputAt(points) ==
    /\ Alive
    /\ \E n \in 0..(FileLen - fed) :
         /\ fed + n \in points
         /\ LET s == JxlDecoderSetInput(dec, cpos, fed + n - cpos)
            IN /\ dec' = s.d
               /\ ret' = s.r
               /\ fed' = IF s.r = JXL_DEC_SUCCESS THEN fed + n ELSE fed
    /\ op' = "SetInput"
    /\ UNCHANGED <<depchk, pnm, sigchk, fid, memory_limit_base_, used_cpu_base_, cpos, hist>>

SetInput == SetInputAt(FeedPoints)

\* the caller keeps the bytes from the first unprocessed one on
ReleaseInput ==
    /\ Alive
    /\ LET s == JxlDecoderReleaseInput(dec)
       IN /\ dec' = s.d
          /\ ret' = s.r
          /\ cpos' = IF dec.next_in = NULL THEN cpos ELSE fed - s.r
    /\ op' = "ReleaseInput"
    /\ UNCHANGED <<depchk, pnm, sigchk, fid, memory_limit_base_, used_cpu_base_, fed, hist>>

\* the accounting of used_cpu_base_ never ends by itself
CpuInBound ==
    cpu_limit_base_ = 0 \/ used_cpu_base_ <= cpu_limit_base_ + MaxCpuOver

ProcessInput ==
    /\ Alive
    /\ CpuInBound
    /\ LET Returns(s) ==
               /\ dec' = s.d
               /\ ret' = s.r
               /\ used_cpu_base_' = s.cpu
               /\ hist' = Observe(hist, dec, s)
       IN \E cut \in Cuts :
             Returns(JxlDecoderProcessInput(dec, cut, used_cpu_base_))
    /\ op' = "ProcessInput"
    /\ UNCHANGED <<depchk, pnm, sigchk, fid, memory_limit_base_, fed, cpos>>

SetPreviewOutBuffer ==
    /\ Alive
    /\ LET s == JxlDecoderSetPreviewOutBuffer(dec)
       IN dec' = s.d /\ ret' = s.r
    /\ op' = "SetPreviewOutBuffer"
    /\ UNCHANGED <<depchk, pnm, sigchk, fid, memory_limit_base_, used_cpu_base_, fed, cpos, hist>>

SetImageOutBuffer ==
    /\ Alive
    /\ LET s == JxlDecoderSetImageOutBuffer(dec)
       IN dec' = s.d /\ ret' = s.r
    /\ op' = "SetImageOutBuffer"
    /\ UNCHANGED <<depchk, pnm, sigchk, fid, memory_limit_base_, used_cpu_base_, fed, cpos, hist>>

SetImageOutCallback ==
    /\ Alive
    /\ LET s == JxlDecoderSetImageOutCallback(dec)
       IN dec' = s.d /\ ret' = s.r
    /\ op' = "SetImageOutCallback"
    /\ UNCHANGED <<depchk, pnm, sigchk, fid, memory_limit_base_, used_cpu_base_, fed, cpos, hist>>

SkipFrames ==
    /\ Alive
    /\ \E amount \in 1..MaxSkipArg :
         /\ hist.skips + amount <= MaxSkip
         /\ dec' = JxlDecoderSkipFrames(dec, amount)
         /\ hist' = [hist EXCEPT !.skips = @ + amount]
    /\ op' = "SkipFrames"
    /\ ret' = JXL_DEC_SUCCESS
    /\ UNCHANGED <<depchk, pnm, sigchk, fid, memory_limit_base_, used_cpu_base_, fed, cpos>>

\* the caller starts to feed the file from its first byte again
Rewind ==
    /\ Alive
    /\ hist.restarts < MaxRestarts
    /\ op = "ProcessInput"
    /\ dec' = JxlDecoderRewind(dec)
    /\ hist' = [NoHistory EXCEPT !.restarts = hist.restarts + 1]
    /\ fed' = 0
    /\ cpos' = 0
    /\ op' = "Rewind"
    /\ ret' = JXL_DEC_SUCCESS
    /\ UNCHANGED <<depchk, pnm, sigchk, fid, memory_limit_base_, used_cpu_base_>>

Reset ==
    /\ Alive
    /\ hist.restarts < MaxRestarts
    /\ op = "ProcessInput"
    /\ dec' = JxlDecoderReset(dec)
    /\ hist' = [NoHistory EXCEPT !.restarts = hist.restarts + 1]
    /\ fed' = 0
    /\ cpos' = 0
    /\ op' = "Reset"
    /\ ret' = JXL_DEC_SUCCESS
    /\ UNCHANGED <<depchk, pnm, sigchk, fid, memory_limit_base_, used_cpu_base_>>

Next ==
    \/ SubscribeEvents
    \/ SetKeepOrientation
    \/ SetInput
    \/ ReleaseInput
    \/ ProcessInput
    \/ SetPreviewOutBuffer
    \/ SetImageOutBuffer
    \/ SetImageOutCallback
    \/ SkipFrames
    \/ Rewind
    \/ Reset

Spec == Init /\ [][Next]_vars

----------------------------------------------------------------------------
(* A streaming caller: it subscribes, then feeds the file in chunks that   *)
(* end anywhere, asks for more input only when told to, and sets a buffer  *)
(* only when asked for one.                                                *)

\* the valid files, decoded without a memory limit
ChunkScenarios == {<<1, 0>>, <<2, 0>>, <<3, 0>>, <<4, 0>>, <<5, 0>>}

InitChunk ==
    /\ \E sc \in ChunkScenarios : fid = sc[1] /\ memory_limit_base_ = sc[2]
    /\ used_cpu_base_ = 0
    /\ dec = JxlDecoderCreate
    /\ fed = 0
    /\ cpos = 0
    /\ op = "Create"
    /\ ret = JXL_DEC_SUCCESS
    /\ hist = NoHistory
    /\ sigchk = NoSignatureCheck
    /\ pnm = NoPnm
    /\ depchk = NoDependencies

\* the decode has not ended with Success or Error
Running == ~hist.finished /\ ~hist.failed

ChunkSubscribe == op = "Create" /\ SubscribeEvents

\* the next chunk ends at any later offset; when the whole file has been
\* given, the caller can only offer again what is left of it
ChunkSetInput ==
    /\ op \in {"SubscribeEvents", "ReleaseInput"}
    /\ SetInputAt({p \in 1..FileLen : p > fed \/ p = FileLen})

ChunkProcess ==
    /\ dec.next_in # NULL
    /\ Running
    /\ \/ op \in {"SetInput", "SetImageOutBuffer", "SetPreviewOutBuffer"}
       \/ op = "ProcessInput" /\ ret \in InformativeEvents
    /\ ProcessInput

ChunkRelease ==
    /\ op = "ProcessInput"
    /\ ret = JXL_DEC_NEED_MORE_INPUT
    /\ ReleaseInput

ChunkImageOutBuffer ==
    /\ op = "ProcessInput"
    /\ ret = JXL_DEC_NEED_IMAGE_OUT_BUFFER
    /\ SetImageOutBuffer

ChunkPreviewOutBuffer ==
    /\ op = "ProcessInput"
    /\ ret = JXL_DEC_NEED_PREVIEW_OUT_BUFFER
    /\ SetPreviewOutBuffer

NextChunk ==
    \/ ChunkSubscribe
    \/ ChunkSetInput
    \/ ChunkProcess
    \/ ChunkRelease
    \/ ChunkImageOutBuffer
    \/ ChunkPreviewOutBuffer

SpecChunk == InitChunk /\ [][NextChunk]_vars

\* The statuses of a one-shot decode: the whole file is set as input and
\* ProcessInput is called again after each event, and after the buffer asked
\* for has been set, until it returns anything else.
RECURSIVE OneShotRun(_, _, _, _)
OneShotRun(d, h, cpu, fuel) ==
    LET Seen(s, h1) ==
            IF s.r \in InformativeEvents
            THEN OneShotRun(s.d, h1, s.cpu, fuel - 1)
            ELSE IF s.r = JXL_DEC_NEED_IMAGE_OUT_BUFFER
            THEN OneShotRun(JxlDecoderSetImageOutBuffer(s.d).d, h1, s.cpu,
                            fuel - 1)
            ELSE IF s.r = JXL_DEC_NEED_PREVIEW_OUT_BUFFER
            THEN OneShotRun(JxlDecoderSetPreviewOutBuffer(s.d).d, h1, s.cpu,
                            fuel - 1)
            ELSE h1.trace
        Called(s) == Seen(s, Observe(h, d, s))
    IN IF fuel = 0 THEN h.trace
       ELSE Called(JxlDecoderProcessInput(d, "late", cpu))

OneShotTrace(events_wanted) ==
    OneShotRun(
        JxlDecoderSetInput(
            JxlDecoderSubscribeEvents(JxlDecoderCreate, events_wanted).d,
            0, FileLen).d,
        NoHistory, 0, MaxCalls)

IsPrefix(a, b) == Len(a) <= Len(b) /\ SubSeq(b, 1, Len(a)) = a

\* ProcessInput was given all that is left of the file, asked for more and
\* changed nothing: it will do so again, whatever the caller does
Starved ==
    /\ op = "ProcessInput"
    /\ hist.stuck
    /\ dec.next_in # NULL
    /\ dec.next_in + dec.avail_in = FileLen

----------------------------------------------------------------------------
(* A caller that holds only a proper prefix of the file *)

PrefixScenarios ==
    {<<1, 0>>, <<2, 0>>, <<3, 0>>, <<4, 0>>, <<5, 0>>, <<9, 0>>,
     <<5, LimitPixels>>, <<9, LimitPixels>>}

InitPrefix ==
    /\ \E sc \in PrefixScenarios : fid = sc[1] /\ memory_limit_base_ = sc[2]
    /\ used_cpu_base_ = 0
    /\ dec = JxlDecoderCreate
    /\ fed = 0
    /\ cpos = 0
    /\ op = "Create"
    /\ ret = JXL_DEC_SUCCESS
    /\ hist = NoHistory
    /\ sigchk = NoSignatureCheck
    /\ pnm = NoPnm
    /\ depchk = NoDependencies

PrefixSubscribe == op = "Create" /\ SubscribeEvents

PrefixSetInput ==
    /\ op = "SubscribeEvents"
    /\ SetInputAt(1..(FileLen - 1))

PrefixProcess ==
    /\ dec.next_in # NULL
    /\ Running
    /\ op \in {"SetInput", "ProcessInput", "SetImageOutBuffer",
               "SetPreviewOutBuffer"}
    /\ ~(op = "ProcessInput" /\ ret \in {JXL_DEC_NEED_IMAGE_OUT_BUFFER,
                                         JXL_DEC_NEED_PREVIEW_OUT_BUFFER})
    /\ ProcessInput

PrefixImageOutBuffer ==
    /\ op = "ProcessInput"
    /\ ret = JXL_DEC_NEED_IMAGE_OUT_BUFFER
    /\ SetImageOutBuffer

PrefixPreviewOutBuffer ==
    /\ op = "ProcessInput"
    /\ ret = JXL_DEC_NEED_PREVIEW_OUT_BUFFER
    /\ SetPreviewOutBuffer

NextPrefix ==
    \/ PrefixSubscribe
    \/ PrefixSetInput
    \/ PrefixProcess
    \/ PrefixImageOutBuffer
    \/ PrefixPreviewOutBuffer

SpecPrefix == InitPrefix /\ [][NextPrefix]_vars

----------------------------------------------------------------------------
(* A streaming caller that asks to skip frames before it gives any input *)

SkipScenarios == {<<1, 0>>, <<3, 0>>, <<4, 0>>, <<10, 0>>}

InitSkip ==
    /\ \E sc \in SkipScenarios : fid = sc[1] /\ memory_limit_base_ = sc[2]
    /\ used_cpu_base_ = 0
    /\ dec = JxlDecoderCreate
    /\ fed = 0
    /\ cpos = 0
    /\ op = "Create"
    /\ ret = JXL_DEC_SUCCESS
    /\ hist = NoHistory
    /\ sigchk = NoSignatureCheck
    /\ pnm = NoPnm
    /\ depchk = NoDependencies

SkipFirst ==
    /\ op \in {"SubscribeEvents", "SkipFrames"}
    /\ SkipFrames

SkipSetInput ==
    /\ op \in {"SubscribeEvents", "SkipFrames", "ReleaseInput"}
    /\ SetInputAt({p \in 1..FileLen : p > fed \/ p = FileLen})

NextSkip ==
    \/ ChunkSubscribe
    \/ SkipFirst
    \/ SkipSetInput
    \/ ChunkProcess
    \/ ChunkRelease
    \/ ChunkImageOutBuffer
    \/ ChunkPreviewOutBuffer

SpecSkip == InitSkip /\ [][NextSkip]_vars

----------------------------------------------------------------------------
(* Properties *)

\* the indexes of the trace entries whose status is in E
Events(E) == {i \in DOMAIN hist.trace : hist.trace[i].e \in E}
\* how often ProcessInput has returned e in this decode
Times(e) == Cardinality(Events({e}))
\* some entry before the i-th has a status in E
Earlier(i, E) == \E j \in 1..(i - 1) : hist.trace[j].e \in E
Subscribed(e) == e \in dec.orig_events_wanted
\* the last call was ProcessInput and it returned r
Returned(r) == op = "ProcessInput" /\ ret = r
\* the stills of the image: the frames that end one
NumStills ==
    Cardinality({k \in DOMAIN Img.frames :
                    Img.frames[k].is_last \/ Img.frames[k].duration > 0})
\* the stills that have been skipped
Skipped == hist.skips - dec.skip_frames
\* the files whose codestream is carried by several jxlp boxes
JxlpFiles == {3, 5}

\* C1: whatever the chunks the file is fed in, the statuses ProcessInput
\* returns, NeedMoreInput left out, are those of the one-shot decode of the
\* file: at any moment a prefix of them, and the decoder never ends up
\* asking for input that does not exist.
ChunkingEquivalence ==
    /\ IsPrefix(hist.trace, OneShotTrace(dec.orig_events_wanted))
    /\ ~Starved

\* C2: for a container with several jxlp boxes, what has been gathered for
\* the header and frame decoder is the concatenation of the jxlp payloads
\* without their index, however the input is split, and decoding goes on to
\* success: it neither fails nor asks for input beyond the end of the file.
JxlpConcatenation ==
    fid \in JxlpFiles =>
        /\ IsPrefix(dec.codestream, CSBytes(Img))
        /\ ~Returned(JXL_DEC_ERROR)
        /\ ~Starved

\* C3 as stated: with BasicInfo subscribed it is returned exactly once per
\* decode and no other informative event is returned before it.
BasicInfoOnceAndFirst ==
    Subscribed(JXL_DEC_BASIC_INFO) =>
        /\ Times(JXL_DEC_BASIC_INFO) <= 1
        /\ hist.finished => Times(JXL_DEC_BASIC_INFO) = 1
        /\ \A i \in Events(InformativeEvents \ {JXL_DEC_BASIC_INFO}) :
              Earlier(i, {JXL_DEC_BASIC_INFO})

\* C3 amended: with BasicInfo subscribed it is returned exactly once per
\* decode, and the only informative event that can be returned before it
\* is JpegReconstruction.
BasicInfoOnceAndFirstButJpeg ==
    Subscribed(JXL_DEC_BASIC_INFO) =>
        /\ Times(JXL_DEC_BASIC_INFO) <= 1
        /\ hist.finished => Times(JXL_DEC_BASIC_INFO) = 1
        /\ \A i \in Events(InformativeEvents
                             \ {JXL_DEC_BASIC_INFO, JXL_DEC_JPEG_RECONSTRUCTION}) :
              Earlier(i, {JXL_DEC_BASIC_INFO})

\* BasicInfo has been returned in a decode that follows a Rewind or Reset,
\* after JpegReconstruction
BasicInfoAgainAfterRestart ==
    /\ Returned(JXL_DEC_BASIC_INFO)
    /\ hist.restarts > 0
    /\ Times(JXL_DEC_JPEG_RECONSTRUCTION) = 1

\* C4 as stated: Extensions is returned only if the image has extensions,
\* after ColorEncoding and before any PreviewImage, Frame or FullImage.
ExtensionsAfterColorEncoding ==
    \A i \in Events({JXL_DEC_EXTENSIONS}) :
        /\ Img.extensions # 0
        /\ Subscribed(JXL_DEC_COLOR_ENCODING)
              => Earlier(i, {JXL_DEC_COLOR_ENCODING})
        /\ ~Earlier(i, {JXL_DEC_PREVIEW_IMAGE, JXL_DEC_FRAME,
                        JXL_DEC_FULL_IMAGE})

\* C4 amended: Extensions is returned only if the image has extensions, at
\* most once, after BasicInfo if that is subscribed, and before
\* ColorEncoding and any PreviewImage, Frame or FullImage.
ExtensionsBeforeColorEncoding ==
    /\ Times(JXL_DEC_EXTENSIONS) <= 1
    /\ \A i \in Events({JXL_DEC_EXTENSIONS}) :
        /\ Img.extensions # 0
        /\ Subscribed(JXL_DEC_BASIC_INFO) => Earlier(i, {JXL_DEC_BASIC_INFO})
        /\ ~Earlier(i, {JXL_DEC_COLOR_ENCODING, JXL_DEC_PREVIEW_IMAGE,
                        JXL_DEC_FRAME, JXL_DEC_FULL_IMAGE})
    /\ \A i \in Events({JXL_DEC_COLOR_ENCODING}) :
          Subscribed(JXL_DEC_EXTENSIONS) /\ Img.extensions # 0
              => Earlier(i, {JXL_DEC_EXTENSIONS})

\* Extensions has been returned and ColorEncoding after it
ExtensionsThenColorEncoding ==
    /\ Returned(JXL_DEC_COLOR_ENCODING)
    /\ Times(JXL_DEC_EXTENSIONS) = 1

\* C5: ColorEncoding is returned exactly once per decode, after BasicInfo
\* if that is subscribed, before any Frame, FullImage, NeedImageOutBuffer
\* or PreviewImage, and only once all codestream headers have been read.
ColorEncodingOnce ==
    /\ Times(JXL_DEC_COLOR_ENCODING) <= 1
    /\ Subscribed(JXL_DEC_COLOR_ENCODING) /\ hist.finished
          => Times(JXL_DEC_COLOR_ENCODING) = 1
    /\ \A i \in Events({JXL_DEC_COLOR_ENCODING}) :
        /\ Subscribed(JXL_DEC_BASIC_INFO) => Earlier(i, {JXL_DEC_BASIC_INFO})
        /\ ~Earlier(i, {JXL_DEC_FRAME, JXL_DEC_FULL_IMAGE,
                        JXL_DEC_NEED_IMAGE_OUT_BUFFER, JXL_DEC_PREVIEW_IMAGE})
    /\ Returned(JXL_DEC_COLOR_ENCODING) => dec.got_all_headers

\* a decode has ended with success in which ColorEncoding came after
\* BasicInfo and before the frames
ColorEncodingThenFrames ==
    /\ hist.finished
    /\ Times(JXL_DEC_BASIC_INFO) = 1
    /\ Times(JXL_DEC_COLOR_ENCODING) = 1
    /\ Times(JXL_DEC_FULL_IMAGE) > 0

\* C6: the Frame and FullImage events come still by still, for each still
\* Frame before FullImage and each at most once, and when the decode has
\* ended with success each subscribed one has come exactly once for every
\* still that was not skipped.
FrameAndFullImagePerStill ==
    /\ \A i, j \in Events({JXL_DEC_FRAME, JXL_DEC_FULL_IMAGE}) :
          i < j =>
            /\ hist.trace[i].k <= hist.trace[j].k
            /\ hist.trace[i].k = hist.trace[j].k
                  => /\ hist.trace[i].e = JXL_DEC_FRAME
                     /\ hist.trace[j].e = JXL_DEC_FULL_IMAGE
    /\ \A i \in Events({JXL_DEC_FRAME, JXL_DEC_FULL_IMAGE}) :
          hist.trace[i].k \in 0..(NumStills - 1)
    /\ hist.finished =>
          \A e \in {JXL_DEC_FRAME, JXL_DEC_FULL_IMAGE} :
              Subscribed(e) => Times(e) = NumStills - Skipped

\* a decode of two stills has ended with success, one still skipped and
\* the other delivered with both events
OneStillSkippedOneDelivered ==
    /\ hist.finished
    /\ NumStills = 2
    /\ Skipped = 1
    /\ Times(JXL_DEC_FRAME) = 1
    /\ Times(JXL_DEC_FULL_IMAGE) = 1

\* NeedImageOutBuffer is returned only when it is needed
NeedImageOutBufferOnlyWhenNeeded ==
    Returned(JXL_DEC_NEED_IMAGE_OUT_BUFFER) =>
        /\ Subscribed(JXL_DEC_FULL_IMAGE)
        /\ dec.is_last_of_still
        /\ ~dec.skipping_frame
        /\ ~dec.image_out_buffer_set

\* ProcessInput right after a buffer or callback was accepted does not ask
\* for a buffer for the frame it was set for
NoSecondRequest ==
    /\ op \in {"SetImageOutBuffer", "SetImageOutCallback"}
    /\ ret = JXL_DEC_SUCCESS
    /\ op' = "ProcessInput"
    /\ ret' = JXL_DEC_NEED_IMAGE_OUT_BUFFER
    => dec'.internal_frames # dec.internal_frames

\* C7: NeedImageOutBuffer is returned only when FullImage is subscribed,
\* the frame is the last of a still and not skipped and no buffer or
\* callback is set; once the caller has set one, the next ProcessInput does
\* not return it again for that frame.
NeedImageOutBufferLazy ==
    []NeedImageOutBufferOnlyWhenNeeded /\ [][NoSecondRequest]_vars

\* the buffer was asked for, set, and the image delivered
BufferAskedSetAndFilled ==
    /\ Returned(JXL_DEC_FULL_IMAGE)
    /\ Times(JXL_DEC_NEED_IMAGE_OUT_BUFFER) = 1
    /\ ~dec.image_out_buffer_set

\* after Success the trace holds nothing but refusals
NothingAfterSuccess ==
    /\ Returned(JXL_DEC_SUCCESS) => dec.stage = kFinished
    /\ \A i \in Events({JXL_DEC_SUCCESS}) :
          \A j \in DOMAIN hist.trace : j > i => hist.trace[j].e = JXL_DEC_ERROR

\* ProcessInput on a finished decoder returns Error and changes nothing
RefusedWhenFinished ==
    dec.stage = kFinished /\ op' = "ProcessInput"
        => ret' = JXL_DEC_ERROR /\ dec' = dec

\* C8: when ProcessInput returns Success the stage is Finished, no
\* informative event follows, and every later ProcessInput is refused with
\* Error and leaves the decoder as it was.
SuccessTerminal == []NothingAfterSuccess /\ [][RefusedWhenFinished]_vars

\* ProcessInput has been called on a finished decoder
CalledAfterSuccess == hist.finished /\ Returned(JXL_DEC_ERROR)

\* C9: once ProcessInput has returned Error for the input it was given,
\* the decoder is in stage Error and ProcessInput returns nothing but Error.
ErrorAbsorbing ==
    hist.failed =>
        /\ dec.stage = kError
        /\ hist.trace[Len(hist.trace)].e = JXL_DEC_ERROR

\* C10: with a proper prefix of a valid file as its input, ProcessInput
\* never returns Error.
TruncatedNeverError == ~Returned(JXL_DEC_ERROR)

\* C11: a SetInput made while next_in is set returns Error and changes
\* nothing of the decoder (next_in, avail_in, file_pos and stage included);
\* made while no input is held, as after ReleaseInput, it succeeds and the
\* decoder holds the buffer given.
SetInputOnlyWhenReleased ==
    [][op' = "SetInput" =>
         IF dec.next_in # NULL
         THEN ret' = JXL_DEC_ERROR /\ dec' = dec
         ELSE /\ ret' = JXL_DEC_SUCCESS
              /\ dec'.next_in = cpos
              /\ dec'.avail_in = fed' - cpos
              /\ dec'.file_pos = dec.file_pos
              /\ dec'.stage = dec.stage]_vars

\* a SetInput was refused: the buffer of the SetInput before is still held
SetInputRefused ==
    /\ op = "SetInput"
    /\ ret = JXL_DEC_ERROR
    /\ dec.next_in # NULL
    /\ dec.avail_in > 0

\* C12 as stated: each ProcessInput call takes from the input exactly the
\* bytes it appends to the codestream buffer, so that what ReleaseInput
\* returns and the bytes copied add up to the bytes supplied; ReleaseInput
\* returns avail_in and leaves no input held.
InputAccounting ==
    [][/\ op' = "ProcessInput" =>
            dec.avail_in - dec'.avail_in
              = Len(dec'.codestream) - Len(dec.codestream)
       /\ op' = "ReleaseInput" =>
            /\ ret' = dec.avail_in
            /\ dec'.next_in = NULL
            /\ dec'.avail_in = 0]_vars

\* C12 amended: the bytes a ProcessInput call takes from the input are at
\* least those it appends to the codestream buffer (in a container it also
\* takes box headers and the contents of other boxes), and exactly those
\* when the input is a bare codestream; next_in moves by the bytes taken.
\* ReleaseInput returns avail_in, the bytes not taken, and leaves no input
\* held.
InputAccountingWithBoxes ==
    [][/\ op' = "ProcessInput" =>
            LET taken == dec.avail_in - dec'.avail_in
                copied == Len(dec'.codestream) - Len(dec.codestream)
            IN /\ 0 <= copied
               /\ copied <= taken
               /\ ~dec'.have_container => taken = copied
               /\ dec.next_in # NULL => dec'.next_in = dec.next_in + taken
               /\ dec.next_in = NULL => taken = 0
       /\ op' = "ReleaseInput" =>
            /\ ret' = dec.avail_in
            /\ dec'.next_in = NULL
            /\ dec'.avail_in = 0]_vars

\* ReleaseInput has returned fewer bytes than were supplied, in a container
\* of which more bytes were taken than the codestream buffer holds
ReleasedAfterBoxesAndCopy ==
    /\ op = "ReleaseInput"
    /\ dec.have_container
    /\ dec.codestream # <<>>
    /\ ret < fed
    /\ cpos > Len(dec.codestream)

\* C13: SubscribeEvents succeeds exactly when the stage is Inited and the
\* mask holds no status of the low six bits; then events_wanted and
\* orig_events_wanted are the mask and nothing else changes.  Otherwise it
\* returns Error and changes nothing.
SubscribeOnlyWhenInited ==
    [][op' = "SubscribeEvents" =>
         \E i \in DOMAIN EventSets :
            IF dec.stage = kInited /\ EventSets[i] \cap NonEvents = {}
            THEN /\ ret' = JXL_DEC_SUCCESS
                 /\ dec' = [dec EXCEPT !.events_wanted = EventSets[i],
                                       !.orig_events_wanted = EventSets[i]]
            ELSE ret' = JXL_DEC_ERROR /\ dec' = dec]_vars

\* a subscription was refused after decoding had started, and the earlier
\* one stands
SubscribeRefusedAfterStart ==
    /\ op = "SubscribeEvents"
    /\ ret = JXL_DEC_ERROR
    /\ dec.stage = kStarted
    /\ dec.orig_events_wanted # {}

\* C14: a SkipFrames call adds its argument to skip_frames.  A ProcessInput
\* call lowers skip_frames by one for each frame header it enters with
\* skip_frames > 0 whose frame is the last of its still, and by nothing else;
\* skipping_frame is, for the frame entered last, whether skip_frames was
\* positive when its header was entered.  No other call but Reset and
\* Rewind changes either.
SkipFramesAdditive ==
    [][/\ op' = "SkipFrames" =>
            /\ hist'.skips > hist.skips
            /\ dec'.skip_frames = dec.skip_frames + (hist'.skips - hist.skips)
            /\ dec'.skipping_frame = dec.skipping_frame
       /\ op' = "ProcessInput" =>
            LET stills == dec'.external_frames - dec.external_frames
                last == IF dec'.is_last_of_still THEN 1 ELSE 0
            IN /\ dec'.skip_frames =
                    IF dec.skip_frames > stills THEN dec.skip_frames - stills
                    ELSE 0
               /\ dec'.internal_frames > dec.internal_frames =>
                    dec'.skipping_frame =
                       (dec.skip_frames - (stills - last) > 0)
               /\ dec'.internal_frames = dec.internal_frames =>
                    dec'.skipping_frame = dec.skipping_frame
       /\ op' \notin {"SkipFrames", "ProcessInput", "Rewind", "Reset"} =>
            /\ dec'.skip_frames = dec.skip_frames
            /\ dec'.skipping_frame = dec.skipping_frame]_vars

\* two SkipFrames calls have added up and the header of the last frame of
\* the first still, entered while skipping, has taken one off
SkippedOneOfTwo ==
    /\ op = "ProcessInput"
    /\ hist.skips = 2
    /\ dec.skip_frames = 1
    /\ dec.skipping_frame
    /\ dec.external_frames = 1

\* C15: when SkipFrames has asked for n stills before any input was given,
\* no Frame, NeedImageOutBuffer or FullImage is returned for the first n
\* stills; and once the decode of an image of more than n stills, Frame and
\* FullImage subscribed, has ended with success, each of the three has been
\* returned for every still from the (n+1)-th on.
SkippedStillsSilent ==
    /\ \A i \in Events(PerStill) : hist.trace[i].k >= hist.skips
    /\ (/\ hist.finished
        /\ hist.skips < NumStills
        /\ Subscribed(JXL_DEC_FRAME)
        /\ Subscribed(JXL_DEC_FULL_IMAGE))
       => \A k \in hist.skips..(NumStills - 1) :
             \A e \in PerStill :
                \E i \in Events({e}) : hist.trace[i].k = k

\* the first still, which later frames refer to, was decoded in silence and
\* the second one was delivered
SavedStillSkippedNextDelivered ==
    /\ fid = 10
    /\ hist.finished
    /\ hist.skips = 1
    /\ Returned(JXL_DEC_SUCCESS)
    /\ Times(JXL_DEC_FULL_IMAGE) = 1
    /\ Times(JXL_DEC_NEED_IMAGE_OUT_BUFFER) = 1
    /\ Times(JXL_DEC_FRAME) = 1

\* what Rewind restarts: the stage, the header latches, the positions in the
\* file and the codestream, the frame stage and the frame counters
Restarted(d) ==
    /\ d.stage = kInited
    /\ ~d.got_signature /\ ~d.first_codestream_seen /\ ~d.last_codestream_seen
    /\ ~d.got_basic_info /\ ~d.got_all_headers /\ ~d.post_headers
    /\ ~d.got_preview_image
    /\ d.file_pos = 0 /\ d.next_in = NULL /\ d.avail_in = 0
    /\ ~d.skip_box /\ d.codestream_begin = 0 /\ d.codestream_end = 0
    /\ d.codestream = <<>>
    /\ d.frame_stage = kHeader /\ d.frame_start = 0
    /\ d.internal_frames = 0 /\ d.external_frames = 0
    /\ ~d.is_last_of_still /\ ~d.is_last_total

\* what Rewind keeps: the option, the subscription and the learned tables
RewindKept(d, e) ==
    /\ e.frame_required = d.frame_required
    /\ e.frame_references = d.frame_references
    /\ e.frame_saved_as = d.frame_saved_as
    /\ e.frame_external_to_internal = d.frame_external_to_internal
    /\ e.keep_orientation = d.keep_orientation
    /\ e.events_wanted = d.orig_events_wanted
    /\ e.orig_events_wanted = d.orig_events_wanted

\* C16 as stated: Rewind restarts the decode and keeps skip_frames,
\* frame_required, frame_references, frame_saved_as,
\* frame_external_to_internal and keep_orientation, and events_wanted is
\* orig_events_wanted again.
RewindKeepsSkipFrames ==
    [][op' = "Rewind" =>
         /\ Restarted(dec')
         /\ RewindKept(dec, dec')
         /\ dec'.skip_frames = dec.skip_frames]_vars

\* C16 amended: Rewind restarts the decode and keeps frame_required,
\* frame_references, frame_saved_as, frame_external_to_internal and
\* keep_orientation, and events_wanted is orig_events_wanted again; the
\* count skip_frames is not kept: it is 0 and skipping_frame is false.
RewindKeepsTables ==
    [][op' = "Rewind" =>
         /\ Restarted(dec')
         /\ RewindKept(dec, dec')
         /\ dec'.skip_frames = 0
         /\ ~dec'.skipping_frame]_vars

\* a rewound decoder that has kept the option, a subscription and the
\* tables of the frames seen before the call
RewoundWithTables ==
    /\ op = "Rewind"
    /\ dec.keep_orientation
    /\ dec.orig_events_wanted # {}
    /\ Len(dec.frame_saved_as) = 2
    /\ dec.frame_references[1] # 255
    /\ dec.frame_external_to_internal # <<>>

\* C17: right after Reset, whatever the state it was called in, the decoder
\* equals a decoder just created, in every field.
ResetEqualsCreate == op = "Reset" => dec = JxlDecoderCreate

----------------------------------------------------------------------------
(* The signature classifier on its own *)

\* The 12 bytes of the container signature box.
ContainerSignature == <<0, 0, 0, 12, 74, 88, 76, 32, 13, 10, 135, 10>>

MaxSigLen == 13
SigByteValues == {0, 1, 10, 12, 255}

\* s with the byte at 1-based position i replaced by v.
WithByte(s, i, v) == [s EXCEPT ![i] = v]

\* The strings the classifier is given: the container signature, or the
\* codestream marker, followed by filler, with at most one byte replaced,
\* cut to every length from 0 to MaxSigLen.
SigBases ==
    { ContainerSignature \o <<255>>,
      <<255, kCodestreamMarker, 0, 0, 0, 12, 74, 88, 76, 32, 13, 10, 135>> }

SigInputs ==
    { SubSeq(WithByte(b, i, v), 1, n) :
        b \in SigBases, i \in 1..MaxSigLen, v \in SigByteValues, n \in 0..MaxSigLen }

InitSig ==
    /\ fid = 1
    /\ memory_limit_base_ = 0
    /\ used_cpu_base_ = 0
    /\ dec = JxlDecoderCreate
    /\ fed = 0
    /\ cpos = 0
    /\ op = "Create"
    /\ ret = JXL_DEC_SUCCESS
    /\ hist = NoHistory
    /\ \E b \in SigInputs : sigchk = [NoSignatureCheck EXCEPT !.buf = b]
    /\ pnm = NoPnm
    /\ depchk = NoDependencies

\* The caller classifies its buffer: ReadSignature from offset 0.
SignatureCheck ==
    /\ ~sigchk.called
    /\ LET r == ReadSignature(sigchk.buf, Len(sigchk.buf), 0)
       IN sigchk' = [sigchk EXCEPT !.called = TRUE, !.sig = r.sig, !.pos = r.pos]
    /\ op' = "SignatureCheck"
    /\ UNCHANGED <<depchk, pnm, fid, memory_limit_base_, used_cpu_base_, dec, fed, cpos, ret, hist>>

NextSig == SignatureCheck

SpecSig == InitSig /\ [][NextSig]_vars

StartsWithMarker(b) == Len(b) >= 2 /\ b[1] = 255 /\ b[2] = kCodestreamMarker
StartsWithContainer(b) == Len(b) >= 12 /\ SubSeq(b, 1, 12) = ContainerSignature
TooShortToTell(b) ==
    \/ Len(b) = 0
    \/ b = <<255>>
    \/ Len(b) >= 1 /\ Len(b) < 12 /\ b[1] = 0

\* C18: the classifier answers Codestream iff the string starts with FF 0A,
\* Container iff its first 12 bytes are the container signature,
\* NotEnoughBytes iff it is empty, the single byte FF, or starts with 00 and
\* has fewer than 12 bytes, Invalid otherwise; the cursor moves by 2 on
\* Codestream, by 12 on Container and not at all otherwise.
SignatureClassified ==
    sigchk.called =>
        /\ (sigchk.sig = JXL_SIG_CODESTREAM) = StartsWithMarker(sigchk.buf)
        /\ (sigchk.sig = JXL_SIG_CONTAINER) = StartsWithContainer(sigchk.buf)
        /\ (sigchk.sig = JXL_SIG_NOT_ENOUGH_BYTES) = TooShortToTell(sigchk.buf)
        /\ (sigchk.sig = JXL_SIG_INVALID) =
               (~StartsWithMarker(sigchk.buf) /\ ~StartsWithContainer(sigchk.buf)
                /\ ~TooShortToTell(sigchk.buf))
        /\ sigchk.pos = (IF sigchk.sig = JXL_SIG_CODESTREAM THEN 2
                         ELSE IF sigchk.sig = JXL_SIG_CONTAINER THEN 12 ELSE 0)

\* A short string starting with 00 that can no longer become the container
\* signature has been classified, and so has a full container signature.
ShortZeroPrefixClassified ==
    /\ sigchk.called
    /\ Len(sigchk.buf) = 11
    /\ sigchk.buf[1] = 0
    /\ sigchk.buf[2] = 255
    /\ sigchk.sig = JXL_SIG_NOT_ENOUGH_BYTES
    /\ sigchk.pos = 0

\* A ProcessInput call made while a box is being skipped either stays inside
\* the box, asking for more input, or leaves it at box_end and goes on with
\* what follows as the one-shot decode of the file does.
SkipStep ==
    /\ dec.skip_box /\ dec'.skip_box =>
           /\ ret' = JXL_DEC_NEED_MORE_INPUT
           /\ dec'.box_end = dec.box_end
           /\ dec'.file_pos <= dec.box_end
    /\ dec.skip_box /\ ~dec'.skip_box =>
           /\ dec'.file_pos >= dec.box_end
           /\ ret' # JXL_DEC_ERROR
           /\ IsPrefix(hist'.trace, OneShotTrace(dec.orig_events_wanted))
           /\ ~Starved'
    /\ ~dec.skip_box /\ dec'.skip_box =>
           /\ ret' = JXL_DEC_NEED_MORE_INPUT
           /\ dec'.file_pos <= dec'.box_end

\* C19: an unknown box that extends beyond the held input is skipped across
\* calls: the call that meets it sets skip_box and returns NeedMoreInput,
\* later calls discard input up to box_end and no further, and the boxes
\* after it are then decoded as if the unknown box were absent.
UnknownBoxSkippedAcrossCalls == [][op' = "ProcessInput" => SkipStep]_vars

\* The same for the file whose unknown box comes before every codestream box.
LeadingUnknownBoxSkipped == [][op' = "ProcessInput" /\ fid = 5 => SkipStep]_vars

\* What JxlDecoderSizeHintBasicInfo returns for decoder d.
JxlDecoderSizeHintBasicInfo(d) ==
    IF d.got_basic_info THEN 0 ELSE d.basic_info_size_hint

\* C20: the size hint for the basic info is 98 (48 + 50) in every state in
\* which the basic info is not yet known, and 0 in every state in which it is.
SizeHintFixedUntilBasicInfo ==
    JxlDecoderSizeHintBasicInfo(dec) =
        IF dec.got_basic_info THEN 0
        ELSE container_header_size + max_codestream_basic_info_size

----------------------------------------------------------------------------
(* The PNM codec: Parser *)

\* A Parser over `bytes`: pos_ is pos, end_ is Len(bytes). Characters are
\* their ASCII codes.
Parser(bytes) == [bytes |-> bytes, pos |-> 0]

AtEnd(p) == p.pos = Len(p.bytes)
Cur(p) == p.bytes[p.pos + 1]
Advance(p) == [p EXCEPT !.pos = @ + 1]

\* '0' <= c <= '9'
IsDigit(c) == 48 <= c /\ c <= 57
\* '\r' or '\n'
IsLineBreak(c) == c = 13 \/ c = 10
\* a line break, '\t' or ' '
IsWhitespace(c) == IsLineBreak(c) \/ c = 9 \/ c = 32

Failure(p) == [ok |-> FALSE, p |-> p]
Success(p) == [ok |-> TRUE, p |-> p]

\* while (pos_ < end_ && *pos_ >= '0' && *pos_ <= '9'): number = number * 10
\* + digit
RECURSIVE LeadingDigits(_, _)
LeadingDigits(p, number) ==
    IF ~AtEnd(p) /\ IsDigit(Cur(p))
    THEN LeadingDigits(Advance(p), number * 10 + (Cur(p) - 48))
    ELSE [p |-> p, number |-> number]

Unsigned(r) == [ok |-> TRUE, p |-> r.p, number |-> r.number]

ParseUnsigned(p) ==
    IF AtEnd(p) THEN [ok |-> FALSE, p |-> p, number |-> 0]
    ELSE IF ~IsDigit(Cur(p)) THEN [ok |-> FALSE, p |-> p, number |-> 0]
    ELSE Unsigned(LeadingDigits(p, 0))

\* the decimal places: number += digit * place, place *= 0.1; the sum is
\* kept as mant / 10^scale
RECURSIVE DecimalPlaces(_, _, _)
DecimalPlaces(p, mant, scale) ==
    IF ~AtEnd(p) /\ IsDigit(Cur(p))
    THEN DecimalPlaces(Advance(p), mant * 10 + (Cur(p) - 48), scale + 1)
    ELSE [p |-> p, mant |-> mant, scale |-> scale]

\* The double is [neg, mant, scale], standing for (-)mant / 10^scale.
Signed(f, is_neg) ==
    [ok |-> TRUE, p |-> f.p,
     number |-> [neg |-> is_neg, mant |-> f.mant, scale |-> f.scale]]

\* Decimal places? w is what the leading digits gave.
AfterLeadingDigits(w, is_neg) ==
    IF ~AtEnd(w.p) /\ Cur(w.p) = 46
    THEN Signed(DecimalPlaces(Advance(w.p), w.number, 0), is_neg)
    ELSE Signed([p |-> w.p, mant |-> w.number, scale |-> 0], is_neg)

\* p is past the sign, if there was one
AfterSign(p, is_neg) ==
    IF AtEnd(p) THEN [ok |-> FALSE, p |-> p, number |-> NULL]
    ELSE AfterLeadingDigits(LeadingDigits(p, 0), is_neg)

ParseSigned(p) ==
    IF AtEnd(p) THEN [ok |-> FALSE, p |-> p, number |-> NULL]
    ELSE IF Cur(p) # 45 /\ Cur(p) # 43 /\ ~IsDigit(Cur(p))
    THEN [ok |-> FALSE, p |-> p, number |-> NULL]
    ELSE AfterSign(IF Cur(p) = 45 \/ Cur(p) = 43 THEN Advance(p) ELSE p,
                   Cur(p) = 45)

SkipBlank(p) ==
    IF AtEnd(p) THEN Failure(p)
    ELSE IF Cur(p) # 32 /\ Cur(p) # 10 THEN Failure(p)
    ELSE Success(Advance(p))

\* SkipSingleWhitespace that also skips a second whitespace character.
SkipSingleWhitespace_Twice(p) ==
    IF AtEnd(p) THEN Failure(p)
    ELSE IF ~IsWhitespace(Cur(p)) THEN Failure(p)
    ELSE IF ~AtEnd(Advance(p)) /\ IsWhitespace(Cur(Advance(p)))
    THEN Success(Advance(Advance(p)))
    ELSE Success(Advance(p))

SkipSingleWhitespace(p) ==
    IF AtEnd(p) THEN Failure(p)
    ELSE IF ~IsWhitespace(Cur(p)) THEN Failure(p)
    ELSE Success(Advance(p))

RECURSIVE WhileWhitespace(_)
WhileWhitespace(p) ==
    IF ~AtEnd(p) /\ IsWhitespace(Cur(p)) THEN WhileWhitespace(Advance(p)) ELSE p

RECURSIVE WhileNotLineBreak(_)
WhileNotLineBreak(p) ==
    IF ~AtEnd(p) /\ ~IsLineBreak(Cur(p)) THEN WhileNotLineBreak(Advance(p)) ELSE p

RECURSIVE WhileLineBreak(_)
WhileLineBreak(p) ==
    IF ~AtEnd(p) /\ IsLineBreak(Cur(p)) THEN WhileLineBreak(Advance(p)) ELSE p

RECURSIVE WhileComment(_)
WhileComment(p) ==
    IF ~AtEnd(p) /\ Cur(p) = 35
    THEN WhileComment(WhileLineBreak(WhileNotLineBreak(p)))
    ELSE p

SkipWhitespace(p) ==
    IF AtEnd(p) THEN Failure(p)
    ELSE IF ~IsWhitespace(Cur(p)) /\ Cur(p) # 35 THEN Failure(p)
    ELSE Success(WhileWhitespace(WhileComment(WhileWhitespace(p))))

\* ceil(log2(x)) for x > 0
RECURSIVE CeilLog2From(_, _, _)
CeilLog2From(x, k, pow) ==
    IF pow >= x THEN k ELSE CeilLog2From(x, k + 1, 2 * pow)

CeilLog2Nonzero(x) == CeilLog2From(x, 0, 1)

\* The header fields a failed parse leaves behind are not used.
NoHeader ==
    [xsize |-> 0, ysize |-> 0, is_bit |-> FALSE, is_gray |-> FALSE,
     is_yuv |-> 0, bits_per_sample |-> 0, floating_point |-> FALSE,
     big_endian |-> FALSE]

HeaderFailure == [ok |-> FALSE, header |-> NoHeader, pos |-> 0]

\* The steps of a header parse work on s = [ok, p, header]; once a step has
\* failed (JXL_RETURN_IF_ERROR) the later ones are not made.
Begin(header, p) == [ok |-> TRUE, p |-> p, header |-> header]
Moved(s, r) == [s EXCEPT !.ok = r.ok, !.p = r.p]
DoSkipWhitespace(s) == IF s.ok THEN Moved(s, SkipWhitespace(s.p)) ELSE s
DoSkipSingleWhitespace(s) == IF s.ok THEN Moved(s, SkipSingleWhitespace(s.p)) ELSE s
DoSkipBlank(s) == IF s.ok THEN Moved(s, SkipBlank(s.p)) ELSE s

GotXsize(s, r) ==
    [ok |-> r.ok, p |-> r.p, header |-> [s.header EXCEPT !.xsize = r.number]]
GotYsize(s, r) ==
    [ok |-> r.ok, p |-> r.p, header |-> [s.header EXCEPT !.ysize = r.number]]
ReadXsize(s) == IF s.ok THEN GotXsize(s, ParseUnsigned(s.p)) ELSE s
ReadYsize(s) == IF s.ok THEN GotYsize(s, ParseUnsigned(s.p)) ELSE s

GotMaxVal(s, r) ==
    IF ~r.ok THEN Moved(s, r)
    ELSE IF r.number = 0 \/ r.number >= 65536 THEN [s EXCEPT !.ok = FALSE]
    ELSE [ok |-> TRUE, p |-> r.p,
          header |-> [s.header EXCEPT
                         !.bits_per_sample = CeilLog2Nonzero(r.number)]]
ReadMaxVal(s) == IF s.ok THEN GotMaxVal(s, ParseUnsigned(s.p)) ELSE s
\* if (!header->is_bit) { ... }
MaxValUnlessBit(s) ==
    IF ~s.ok \/ s.header.is_bit THEN s ELSE ReadMaxVal(DoSkipWhitespace(s))

IntegerSamples(s) ==
    IF s.ok THEN [s EXCEPT !.header.floating_point = FALSE,
                           !.header.big_endian = TRUE]
    ELSE s

GotScale(s, r) ==
    IF ~r.ok THEN Moved(s, r)
    ELSE [ok |-> TRUE, p |-> r.p,
          header |-> [s.header EXCEPT
                         !.big_endian = ~r.number.neg \/ r.number.mant = 0,
                         !.bits_per_sample = 32,
                         !.floating_point = TRUE]]
ReadScale(s) == IF s.ok THEN GotScale(s, ParseSigned(s.p)) ELSE s

\* *pos = pos_; return true
Parsed(s) ==
    IF s.ok THEN [ok |-> TRUE, header |-> s.header, pos |-> s.p.pos]
    ELSE HeaderFailure

ParseHeaderPNM(header, p) ==
    Parsed(DoSkipSingleWhitespace(IntegerSamples(MaxValUnlessBit(
        ReadYsize(DoSkipWhitespace(ReadXsize(DoSkipWhitespace(Begin(header, p)))))))))

ParseHeaderPFM(header, p) ==
    Parsed(DoSkipSingleWhitespace(ReadScale(DoSkipSingleWhitespace(
        ReadYsize(DoSkipBlank(ReadXsize(DoSkipSingleWhitespace(Begin(header, p)))))))))

\* The caller hands over at least two bytes. Y4M headers ("YU...") are not
\* among the inputs and are refused here.
\* pos_ += 2
AfterType(bytes) == [Parser(bytes) EXCEPT !.pos = 2]

ParseHeader(bytes) ==
    IF bytes[1] = 89 /\ bytes[2] = 85 THEN HeaderFailure
    ELSE IF bytes[1] # 80 THEN HeaderFailure
    ELSE IF bytes[2] = 52
    THEN ParseHeaderPNM([NoHeader EXCEPT !.is_bit = TRUE, !.is_gray = TRUE,
                                         !.bits_per_sample = 1], AfterType(bytes))
    ELSE IF bytes[2] = 53
    THEN ParseHeaderPNM([NoHeader EXCEPT !.is_gray = TRUE], AfterType(bytes))
    ELSE IF bytes[2] = 54
    THEN ParseHeaderPNM([NoHeader EXCEPT !.is_gray = FALSE], AfterType(bytes))
    ELSE IF bytes[2] = 70
    THEN ParseHeaderPFM([NoHeader EXCEPT !.is_gray = FALSE], AfterType(bytes))
    ELSE IF bytes[2] = 102
    THEN ParseHeaderPFM([NoHeader EXCEPT !.is_gray = TRUE], AfterType(bytes))
    ELSE HeaderFailure

----------------------------------------------------------------------------
(* The PNM codec: encoder, decoder and their caller *)

\* What snprintf writes for %zu and %u: the decimal digits of n.
RECURSIVE Decimal(_)
Decimal(n) == IF n < 10 THEN <<48 + n>> ELSE Append(Decimal(n \div 10), 48 + (n % 10))

kMaxHeaderSize == 200

\* ib is the image bundle: its size, IsGray() and HasAlpha().
EncodeHeader(ib, bits_per_sample, little_endian) ==
    LET size == Decimal(ib.xsize) \o <<32>> \o Decimal(ib.ysize) \o <<10>>
        pfm == <<80, IF ib.is_gray THEN 102 ELSE 70, 10>> \o size
                 \o (IF little_endian THEN <<45>> ELSE <<>>) \o <<49, 46, 48, 10>>
        pbm == <<80, 52, 10>> \o size
        max_val == Pow2(bits_per_sample) - 1
        pnm_ == <<80, IF ib.is_gray THEN 53 ELSE 54, 10>> \o size
                  \o Decimal(max_val) \o <<10>>
        Written(h) == [ok |-> Len(h) < kMaxHeaderSize, header |-> h]
    IN IF ib.has_alpha THEN [ok |-> FALSE, header |-> <<>>]
       ELSE IF bits_per_sample = 32 THEN Written(pfm)
       ELSE IF bits_per_sample = 1
       THEN IF ~ib.is_gray THEN [ok |-> FALSE, header |-> <<>>] ELSE Written(pbm)
       ELSE IF max_val >= 65536 THEN [ok |-> FALSE, header |-> <<>>]
       ELSE Written(pnm_)

\* io.pixels stands for what ConvertToExternal yields for the image; the
\* file is the header followed by it.
Encoded(io, h) ==
    IF h.ok THEN [ok |-> TRUE, bytes |-> h.header \o io.pixels]
    ELSE [ok |-> FALSE, bytes |-> <<>>]

EncodeImagePNM(io, bits_per_sample) ==
    Encoded(io, EncodeHeader(io, bits_per_sample,
                             bits_per_sample > 16 /\ io.little_endian_host))

\* What the decoder hands to ConvertFromExternal: the header fields and the
\* span from pos to the end of the file.
Decoded(bytes, r) ==
    IF ~r.ok THEN [ok |-> FALSE, header |-> NoHeader, span |-> <<>>]
    ELSE IF r.header.bits_per_sample = 0 \/ r.header.bits_per_sample > 32
    THEN [ok |-> FALSE, header |-> r.header, span |-> <<>>]
    ELSE [ok |-> TRUE, header |-> r.header,
          span |-> SubSeq(bytes, r.pos + 1, Len(bytes))]

DecodeImagePNM(bytes) == Decoded(bytes, ParseHeader(bytes))

MaxTextLen == 3
\* '+' '-' '.' '0' '2' '3' 'A' ' '
TextChars == {43, 45, 46, 48, 50, 51, 65, 32}

RECURSIVE Texts(_)
Texts(n) ==
    IF n = 0 THEN {<<>>}
    ELSE Texts(n - 1) \cup {Append(t, c) : t \in {u \in Texts(n - 1) : Len(u) = n - 1},
                                            c \in TextChars}

PnmBits == (1..17) \cup {32}

\* The images encoded: pixels is the payload, whose first byte may look like
\* a digit, whitespace or a comment.
PnmImages ==
    { [xsize |-> x, ysize |-> y, is_gray |-> g, has_alpha |-> a,
       bits_per_sample |-> b, little_endian_host |-> FALSE,
       pixels |-> <<c, 7>>] :
        x \in {1, 9, 10, 255}, y \in {1, 12}, g \in BOOLEAN, a \in BOOLEAN,
        b \in PnmBits, c \in {48, 32, 10, 35} }
    \cup
    { [xsize |-> 2, ysize |-> 1, is_gray |-> g, has_alpha |-> FALSE,
       bits_per_sample |-> 32, little_endian_host |-> TRUE,
       pixels |-> <<c, 7>>] : g \in BOOLEAN, c \in {48, 10} }

\* The MaxVal fields of the PGM and PPM files decoded.
MaxVals == {0, 1, 2, 3, 4, 5, 7, 8, 255, 256, 257, 65535, 65536, 70000}

\* A PGM or PPM file of one pixel with the given MaxVal.
PnmFile(is_gray, max_val) ==
    <<80, IF is_gray THEN 53 ELSE 54, 10, 49, 32, 49, 10>>
        \o Decimal(max_val) \o <<10, 7, 7, 7, 7, 7, 7>>

InitPnm ==
    /\ fid = 1
    /\ memory_limit_base_ = 0
    /\ used_cpu_base_ = 0
    /\ dec = JxlDecoderCreate
    /\ fed = 0
    /\ cpos = 0
    /\ op = "Create"
    /\ ret = JXL_DEC_SUCCESS
    /\ hist = NoHistory
    /\ sigchk = NoSignatureCheck
    /\ depchk = NoDependencies
    /\ \/ \E t \in Texts(MaxTextLen) :
             pnm = [mode |-> "text", text |-> t, called |-> "none",
                    ok |-> FALSE, number |-> NULL, pos |-> 0]
       \/ \E img \in PnmImages :
             pnm = [mode |-> "image", img |-> img, stage |-> "start",
                    bytes |-> <<>>, out |-> NULL]
       \/ \E m \in MaxVals : \E g \in BOOLEAN :
             pnm = [mode |-> "file", max_val |-> m, bytes |-> PnmFile(g, m),
                    stage |-> "start", parsed |-> HeaderFailure, out |-> NULL]

PnmUnchanged ==
    UNCHANGED <<fid, memory_limit_base_, used_cpu_base_, dec, fed, cpos, ret,
                hist, sigchk, depchk>>

TestParseUnsigned ==
    /\ pnm.mode = "text" /\ pnm.called = "none"
    /\ LET r == ParseUnsigned(Parser(pnm.text))
       IN pnm' = [pnm EXCEPT !.called = "ParseUnsigned", !.ok = r.ok,
                             !.number = IF r.ok THEN r.number ELSE NULL,
                             !.pos = r.p.pos]
    /\ op' = "ParseUnsigned"
    /\ PnmUnchanged

TestParseSigned ==
    /\ pnm.mode = "text" /\ pnm.called = "none"
    /\ LET r == ParseSigned(Parser(pnm.text))
       IN pnm' = [pnm EXCEPT !.called = "ParseSigned", !.ok = r.ok,
                             !.number = r.number, !.pos = r.p.pos]
    /\ op' = "ParseSigned"
    /\ PnmUnchanged

Encode ==
    /\ pnm.mode = "image" /\ pnm.stage = "start"
    /\ LET e == EncodeImagePNM(pnm.img, pnm.img.bits_per_sample)
       IN pnm' = [pnm EXCEPT !.stage = IF e.ok THEN "encoded" ELSE "encode failed",
                             !.bytes = e.bytes]
    /\ op' = "EncodeImagePNM"
    /\ PnmUnchanged

Decode ==
    /\ pnm.mode = "image" /\ pnm.stage = "encoded"
    /\ LET r == DecodeImagePNM(pnm.bytes)
       IN pnm' = [pnm EXCEPT !.stage = IF r.ok THEN "decoded" ELSE "decode failed",
                             !.out = r]
    /\ op' = "DecodeImagePNM"
    /\ PnmUnchanged

\* a file that was not written by the encoder is decoded
DecodeFile ==
    /\ pnm.mode = "file" /\ pnm.stage = "start"
    /\ pnm' = [pnm EXCEPT !.stage = "done",
                          !.parsed = ParseHeader(pnm.bytes),
                          !.out = DecodeImagePNM(pnm.bytes)]
    /\ op' = "DecodeImagePNM"
    /\ PnmUnchanged

NextPnm ==
    \/ TestParseUnsigned
    \/ TestParseSigned
    \/ Encode
    \/ Decode
    \/ DecodeFile

SpecPnm == InitPnm /\ [][NextPnm]_vars

\* The length of the maximal run of digits at the start of t.
RECURSIVE DigitRun(_)
DigitRun(t) == IF t # <<>> /\ IsDigit(Head(t)) THEN 1 + DigitRun(Tail(t)) ELSE 0

\* The number that the n digits at the start of t write.
RECURSIVE DigitsValue(_, _)
DigitsValue(t, n) ==
    IF n = 0 THEN 0 ELSE 10 * DigitsValue(t, n - 1) + (t[n] - 48)

HasSign(t) == t # <<>> /\ Head(t) \in {43, 45}
Unsigned_(t) == IF HasSign(t) THEN Tail(t) ELSE t

\* An optional sign followed by at least one digit.
SignedNumeral(t) == DigitRun(Unsigned_(t)) >= 1

\* ParseUnsigned fails on the empty string and on a string not starting
\* with a digit, and otherwise gives the value of the leading digit run and
\* consumes exactly that run.
ParseUnsignedByDigitRun ==
    pnm.mode = "text" /\ pnm.called = "ParseUnsigned" =>
        /\ pnm.ok = (DigitRun(pnm.text) >= 1)
        /\ pnm.ok => /\ pnm.number = DigitsValue(pnm.text, DigitRun(pnm.text))
                     /\ pnm.pos = DigitRun(pnm.text)

\* ParseSigned fails on every string that is not an optional sign followed
\* by at least one digit, and otherwise gives the signed value of the digits.
ParseSignedBySignedNumeral ==
    pnm.mode = "text" /\ pnm.called = "ParseSigned" =>
        /\ pnm.ok = SignedNumeral(pnm.text)
        /\ pnm.ok /\ pnm.number.scale = 0 =>
              /\ pnm.number.mant =
                     DigitsValue(Unsigned_(pnm.text), DigitRun(Unsigned_(pnm.text)))
              /\ pnm.number.neg = (Head(pnm.text) = 45)

\* C21: ParseUnsigned fails on the empty string and on any input not
\* starting with a decimal digit, and otherwise returns the value of the
\* leading digit run and consumes exactly it; ParseSigned fails on every
\* input that is not an optional sign followed by at least one digit, and
\* otherwise returns the signed value.
PnmNumberParsing == ParseUnsignedByDigitRun /\ ParseSignedBySignedNumeral

\* The image pnm.img has been encoded and read back unchanged: the decoder
\* found its width, height, kind and sample depth in the header and the
\* pixels right after it.
ReadBackUnchanged ==
    /\ pnm.stage = "decoded"
    /\ pnm.out.header.xsize = pnm.img.xsize
    /\ pnm.out.header.ysize = pnm.img.ysize
    /\ pnm.out.header.is_gray = pnm.img.is_gray
    /\ pnm.out.header.bits_per_sample = pnm.img.bits_per_sample
    /\ pnm.out.span = pnm.img.pixels

IntegerImageWithoutAlpha ==
    pnm.mode = "image" /\ ~pnm.img.has_alpha /\ pnm.img.bits_per_sample <= 16

FilePosTracksInput ==
    [][/\ op' \notin {"Reset", "Rewind"} => dec'.file_pos >= dec.file_pos
       /\ op' = "ProcessInput" =>
              dec'.file_pos + dec'.avail_in = dec.file_pos + dec.avail_in]_vars

\* The same for the files without a JPEG reconstruction box.
FilePosTracksInputWithoutJbrd ==
    [][fid # 4 =>
          /\ op' \notin {"Reset", "Rewind"} => dec'.file_pos >= dec.file_pos
          /\ op' = "ProcessInput" =>
                 dec'.file_pos + dec'.avail_in = dec.file_pos + dec.avail_in]_vars

----------------------------------------------------------------------------
(* A caller that skips frames and rewinds, the whole file given at once *)

InitDeps ==
    /\ fid \in {11, 12} /\ memory_limit_base_ = 0
    /\ used_cpu_base_ = 0
    /\ dec = JxlDecoderCreate
    /\ fed = 0
    /\ cpos = 0
    /\ op = "Create"
    /\ ret = JXL_DEC_SUCCESS
    /\ hist = NoHistory
    /\ sigchk = NoSignatureCheck
    /\ pnm = NoPnm
    /\ depchk = NoDependencies

DepsSetInput ==
    /\ op \in {"SubscribeEvents", "SkipFrames", "Rewind"}
    /\ dec.next_in = NULL
    /\ SetInputAt({FileLen})

DepsSkipFrames == op # "Create" /\ Running /\ SkipFrames

DepsProcess == dec.next_in # NULL /\ Running /\ ProcessInput

NextDeps ==
    \/ ChunkSubscribe
    \/ DepsSetInput
    \/ DepsSkipFrames
    \/ DepsProcess
    \/ ChunkImageOutBuffer
    \/ Rewind

SpecDeps == InitDeps /\ [][NextDeps]_vars

\* The frames that the step has skipped without decoding.
NewlyUndecoded == dec'.undecoded \ dec.undecoded

\* frame_required marks the frame with internal index i as not required.
MarkedNonRequired(d, i) ==
    i < Len(d.frame_required) /\ d.frame_required[i + 1] = 0

\* Every frame skipped with zero decoding is being skipped, is marked
\* non-required, is not a DC frame and cannot be referenced.
ZeroDecodingNeedsAll ==
    [][\A i \in NewlyUndecoded :
          /\ dec.skip_frames > 0
          /\ MarkedNonRequired(dec, i)
          /\ ~Img.frames[i + 1].dc
          /\ ~Img.frames[i + 1].can_ref]_vars

\* C24: a frame is skipped with zero decoding (frame_start advanced by
\* frame_size, frame_stage back at Header, no TOC or Full stage) only if it
\* is being skipped and either frame_required marks its internal index as
\* not required, or it is not a DC frame and CanBeReferenced() is false.
ZeroDecodingOnlyIfUnneeded ==
    [][\A i \in NewlyUndecoded :
          /\ op' = "ProcessInput"
          /\ dec.skip_frames > 0
          /\ dec'.frame_start >= FrameOff(Img, i + 2)
          /\ \/ MarkedNonRequired(dec, i)
             \/ ~Img.frames[i + 1].dc /\ ~Img.frames[i + 1].can_ref]_vars

\* After a rewind the first frame, which can be referenced, has been skipped
\* without decoding because the still sought does not need it.
SavedFrameLeftUndecoded ==
    /\ fid = 11
    /\ hist.restarts = 1
    /\ 0 \in dec.undecoded
    /\ Img.frames[1].can_ref
    /\ dec.frame_required # <<>>

\* The saved_as values of the frames of the file, by internal index.
SavedAsOfFile == [k \in 1..Len(Img.frames) |-> Img.frames[k].saved_as]

\* The frames of this pass that went on to be decoded.
DecodedInPass == (0..(dec.internal_frames - 1)) \ dec.undecoded

\* Frame r reads a slot whose most recent saver before r is frame f.
ReadsFrom(r, f) ==
    \E s \in 0..(kNumStorage - 1) :
        /\ HasBit(Img.frames[r + 1].references, s)
        /\ Storage(SavedAsOfFile, s, r - 1) = f

\* C25: skipping is sound. Whatever SkipFrames, Rewind and ProcessInput calls
\* were made, no frame decoded in a pass reads a storage slot whose most
\* recent saver is a frame that the pass skipped without decoding.
SkippingIsSound ==
    \A f \in dec.undecoded :
        \A r \in DecodedInPass : r > f => ~ReadsFrom(r, f)

\* In the pass after a rewind the first frame was left undecoded and the
\* frame that reads slots 0 and 4 has been decoded.
ReaderDecodedAfterSkip ==
    /\ fid = 11
    /\ hist.restarts = 1
    /\ 0 \in dec.undecoded
    /\ 3 \in DecodedInPass
    /\ dec.internal_frames >= 5

----------------------------------------------------------------------------
(* GetFrameDependencies on its own *)

MaxTableLen == 3
SavedAsValues == {0, 1, 2, 3}
ReferencesValues == {0, 1, 2, 255}

Tables(n) == [1..n -> SavedAsValues \X ReferencesValues]

InitDependencies ==
    /\ fid = 1
    /\ memory_limit_base_ = 0
    /\ used_cpu_base_ = 0
    /\ dec = JxlDecoderCreate
    /\ fed = 0
    /\ cpos = 0
    /\ op = "Create"
    /\ ret = JXL_DEC_SUCCESS
    /\ hist = NoHistory
    /\ sigchk = NoSignatureCheck
    /\ pnm = NoPnm
    /\ \E n \in 1..MaxTableLen : \E t \in Tables(n) : \E index \in 0..(n - 1) :
          depchk = [called |-> FALSE, index |-> index,
                    saved_as |-> [i \in 1..n |-> t[i][1]],
                    references |-> [i \in 1..n |-> t[i][2]],
                    result |-> <<>>]

FrameDependencies ==
    /\ depchk # NoDependencies
    /\ ~depchk.called
    /\ depchk' = [depchk EXCEPT
                     !.called = TRUE,
                     !.result = GetFrameDependencies(depchk.index, depchk.saved_as,
                                                     depchk.references)]
    /\ op' = "GetFrameDependencies"
    /\ UNCHANGED <<fid, memory_limit_base_, used_cpu_base_, dec, fed, cpos, ret,
                   hist, sigchk, pnm>>

NextDependencies == FrameDependencies

SpecDependencies == InitDependencies /\ [][NextDependencies]_vars

\* The frame held in slot s as of frame i: the last frame j <= i saved in it
\* (a set of at most one frame).
HeldIn(saved_as, s, i) ==
    {j \in 0..i : /\ HasBit(saved_as[j + 1], s)
                  /\ \A k \in (j + 1)..i : ~HasBit(saved_as[k + 1], s)}

\* The frames that frame f reads: for each slot bit of references[f], the
\* frame held in the slot as of f - 1; frame 0 reads none.
ReadBy(saved_as, references, f) ==
    IF f = 0 THEN {}
    ELSE UNION {HeldIn(saved_as, s, f - 1) :
                   s \in {b \in 0..(kNumStorage - 1) : HasBit(references[f + 1], b)}}

RECURSIVE ReachableFrom(_, _, _)
ReachableFrom(S, saved_as, references) ==
    LET T == S \cup UNION {ReadBy(saved_as, references, f) : f \in S}
    IN IF T = S THEN S ELSE ReachableFrom(T, saved_as, references)

\* What the frame sought, and any frame after it, may need: the frame itself
\* and the frame held in each slot as of it, and all they lead to.
NeededFor(t, saved_as, references) ==
    ReachableFrom({t} \cup UNION {HeldIn(saved_as, s, t) : s \in 0..(kNumStorage - 1)},
                  saved_as, references)

NoDuplicates(q) == \A i, j \in DOMAIN q : q[i] = q[j] => i = j

\* C26: GetFrameDependencies(t, saved_as, references) returns, without
\* duplicates and with every element <= t, exactly the frames other than t
\* reachable from t and from the frame held in each of the 8 slots as of t
\* by going from a frame f > 0, for each slot bit set in references[f], to
\* the frame held in that slot as of f - 1.
DependenciesAreReachableFrames ==
    depchk # NoDependencies /\ depchk.called =>
        /\ NoDuplicates(depchk.result)
        /\ \A i \in DOMAIN depchk.result : depchk.result[i] <= depchk.index
        /\ Range(depchk.result) =
               NeededFor(depchk.index, depchk.saved_as, depchk.references)
                   \ {depchk.index}

\* A dependency found only through the references of another frame: frame 0
\* is not held in any slot as of the frame sought.
TransitiveDependencyFound ==
    /\ depchk # NoDependencies /\ depchk.called
    /\ depchk.index = 2
    /\ 0 \in Range(depchk.result)
    /\ \A s \in 0..(kNumStorage - 1) : 0 \notin HeldIn(depchk.saved_as, s, 2)
    /\ depchk.references[3] # 255

----------------------------------------------------------------------------
(* Containers with a box that the box loop refuses *)

BoxFiles == {6, 13, 14, 15, 16, 17, 18, 19}

InitBox ==
    /\ fid \in BoxFiles /\ memory_limit_base_ = 0
    /\ used_cpu_base_ = 0
    /\ dec = JxlDecoderCreate
    /\ fed = 0
    /\ cpos = 0
    /\ op = "Create"
    /\ ret = JXL_DEC_SUCCESS
    /\ hist = NoHistory
    /\ sigchk = NoSignatureCheck
    /\ pnm = NoPnm
    /\ depchk = NoDependencies

NextBox ==
    \/ ChunkSubscribe
    \/ ChunkSetInput
    \/ ChunkProcess
    \/ ChunkRelease

SpecBox == InitBox /\ [][NextBox]_vars

\* The file offset at which the header of the refused box is complete: the
\* size and type, the extended size if there is one, and for a jxlp box the
\* four bytes of its index.  FileJxlpTail ends before that offset.
RefusedHeaderEnd ==
    CASE fid = 6 -> 20
      [] fid \in {13, 14} -> 38
      [] fid \in {15, 16, 17} -> 34
      [] fid = 18 -> 30
      [] OTHER -> NULL

\* C27: the box loop returns Error for a box whose size is greater than 0
\* and smaller than its header, for a box whose end offset overflows, for
\* a jxlp box too small to hold its index, for a jxlp box of unknown length
\* that is not the last, and for an unknown box of unknown length when no
\* codestream box has been seen, once the header of the box (with the index
\* of a jxlp box) is held; as long as it is not, ProcessInput returns
\* NeedMoreInput.  An unknown box of unknown length after a codestream box
\* is not an error.
BoxHeaderValidation ==
    op = "ProcessInput" =>
        IF RefusedHeaderEnd = NULL THEN ret # JXL_DEC_ERROR
        ELSE IF fed >= RefusedHeaderEnd THEN ret = JXL_DEC_ERROR
        ELSE ret = JXL_DEC_NEED_MORE_INPUT

\* The jxlp box that is too small is refused in a later call than the one
\* that read the box in front of it.
SmallJxlpRefusedLater ==
    /\ fid = 15
    /\ op = "ProcessInput"
    /\ ret = JXL_DEC_ERROR
    /\ dec.file_pos > 12

----------------------------------------------------------------------------
(* A caller that gives the whole file in one SetInput *)

OneShotFiles == {1, 2, 4, 9, 10, 11, 12}

InitOneShot ==
    /\ fid \in OneShotFiles /\ memory_limit_base_ = 0
    /\ used_cpu_base_ = 0
    /\ dec = JxlDecoderCreate
    /\ fed = 0
    /\ cpos = 0
    /\ op = "Create"
    /\ ret = JXL_DEC_SUCCESS
    /\ hist = NoHistory
    /\ sigchk = NoSignatureCheck
    /\ pnm = NoPnm
    /\ depchk = NoDependencies

OneShotSetInput == op = "SubscribeEvents" /\ SetInputAt({FileLen})

NextOneShot ==
    \/ ChunkSubscribe
    \/ OneShotSetInput
    \/ ChunkProcess
    \/ ChunkImageOutBuffer
    \/ ChunkPreviewOutBuffer

SpecOneShot == InitOneShot /\ [][NextOneShot]_vars

\* The file offset of the first byte of the codestream.
CodestreamOffset ==
    CASE fid = 2 -> 20
      [] fid = 4 -> 30
      [] OTHER -> 0

\* C28: when the whole file, a raw codestream or a container with a single
\* codestream box, is given in one SetInput and no ProcessInput call has
\* returned NeedMoreInput, dec->codestream is empty in every state up to and
\* including Success, and no byte of the codestream has been consumed from
\* the caller's buffer.
OneShotDoesNotCopy ==
    ~(op = "ProcessInput" /\ ret = JXL_DEC_NEED_MORE_INPUT) =>
        /\ dec.codestream = <<>>
        /\ dec.next_in # NULL => dec.next_in <= CodestreamOffset

\* The container with a jxlc box has been decoded to the end from the
\* caller's buffer.
ContainerDecodedInPlace ==
    /\ fid = 2
    /\ op = "ProcessInput"
    /\ ret = JXL_DEC_SUCCESS
    /\ dec.next_in = CodestreamOffset
    /\ dec.avail_in = FileLen - CodestreamOffset

----------------------------------------------------------------------------
(* From one-shot to streaming *)

\* The codestream bytes that a ProcessInput call on the decoder hands to the
\* header and frame driver from the caller's buffer.
CodestreamWindow(c) ==
    SubSeq(Input(c.d), 1,
           IF c.d.have_container THEN CodestreamSize(c.d) ELSE c.d.avail_in)

\* The step is a ProcessInput call whose header and frame driver ran on the
\* caller's buffer, dec->codestream being empty, and asked for more input.
DriverStarvedInOneShot ==
    /\ op' = "ProcessInput"
    /\ BeforeCodestreamPhase(dec).r = CONT
    /\ BeforeCodestreamPhase(dec).d.codestream = <<>>
    /\ ret' = JXL_DEC_NEED_MORE_INPUT

\* The step has moved the window from the caller's buffer to dec->codestream.
WindowCopied ==
    /\ dec'.codestream = CodestreamWindow(BeforeCodestreamPhase(dec))
    /\ dec'.codestream # <<>>
    /\ dec'.next_in = BeforeCodestreamPhase(dec).d.next_in
                         + Len(CodestreamWindow(BeforeCodestreamPhase(dec)))

\* The step has left the window in the caller's buffer.
WindowLeft ==
    /\ dec'.codestream = <<>>
    /\ dec'.next_in = BeforeCodestreamPhase(dec).d.next_in

\* C29 as stated: whenever the header and frame driver returns NeedMoreInput
\* while dec->codestream is empty, the same ProcessInput call appends the
\* codestream window to dec->codestream and consumes it from the input.
StarvedDriverAlwaysCopies ==
    [][DriverStarvedInOneShot => WindowCopied]_vars

\* C29, amended: whenever the header and frame driver returns NeedMoreInput
\* while dec->codestream is empty, the same ProcessInput call appends the
\* codestream window to dec->codestream and consumes it from the input if
\* the basic info is known by then; if it is not, the call copies and
\* consumes none of the window and dec->codestream stays empty.
StarvedDriverCopiesOnceBasicInfoKnown ==
    [][DriverStarvedInOneShot =>
          IF dec'.got_basic_info THEN WindowCopied ELSE WindowLeft]_vars

\* The raw codestream has been copied by the first call that consumed any
\* of it.
FirstShortageCopied ==
    /\ fid = 1
    /\ op = "ProcessInput"
    /\ ret = JXL_DEC_NEED_MORE_INPUT
    /\ cpos = 0
    /\ dec.got_basic_info
    /\ dec.codestream # <<>>
    /\ dec.next_in = Len(dec.codestream)

----------------------------------------------------------------------------
(* What is held between frames *)

\* C30 as stated: between API calls, frame_stage = kHeader implies that
\* neither an image bundle nor a frame decoder is held.
NothingHeldAtHeader ==
    dec.frame_stage = kHeader => ~dec.ib /\ ~dec.frame_dec

\* C30, amended: between API calls, frame_stage = kHeader implies that no
\* image bundle is held and that no frame decoder is in progress; the frame
\* decoder of the frame before may still be held.
NoBundleAtHeader ==
    dec.frame_stage = kHeader => ~dec.ib /\ ~dec.frame_dec_in_progress

\* A still has been returned and the decoder is at the header of the next
\* frame, with the frame decoder of the still.
FrameDecoderKeptAfterStill ==
    /\ op = "ProcessInput"
    /\ ret = JXL_DEC_FULL_IMAGE
    /\ dec.frame_stage = kHeader
    /\ dec.frame_dec
    /\ ~dec.ib

----------------------------------------------------------------------------
(* The size limit and the basic info *)

\* C31: in every reachable state, got_basic_info implies that the image size
\* in the metadata has passed the size-limit check, so that no later
\* ProcessInput call goes on decoding an image refused as too large.
BasicInfoPassedSizeLimit ==
    dec.got_basic_info => CheckSizeLimit(Img.xsize, Img.ysize)

----------------------------------------------------------------------------
(* The image output target *)

----------------------------------------------------------------------------
(* A caller that sets the image out buffer before it is asked to *)

InitEarly ==
    /\ fid \in {10, 11} /\ memory_limit_base_ = 0
    /\ used_cpu_base_ = 0
    /\ dec = JxlDecoderCreate
    /\ fed = 0
    /\ cpos = 0
    /\ op = "Create"
    /\ ret = JXL_DEC_SUCCESS
    /\ hist = NoHistory
    /\ sigchk = NoSignatureCheck
    /\ pnm = NoPnm
    /\ depchk = NoDependencies

EarlyImageOutBuffer ==
    /\ op # "SetImageOutBuffer"
    /\ Running
    /\ SetImageOutBuffer

NextEarly ==
    \/ ChunkSubscribe
    \/ DepsSetInput
    \/ DepsSkipFrames
    \/ DepsProcess
    \/ EarlyImageOutBuffer

SpecEarly == InitEarly /\ [][NextEarly]_vars

\* The step is a ProcessInput call that has output the pixels of a still to
\* the target that was set.
PixelsOutput ==
    /\ op' = "ProcessInput"
    /\ dec.image_out_buffer_set
    /\ ~dec'.image_out_buffer_set

\* C32: the image output target is a buffer or a callback, never both: after
\* any sequence of SetImageOutBuffer, SetImageOutCallback and ProcessInput
\* calls the decoder does not hold both an image_out_buffer and an
\* image_out_callback at the time pixels are output.
BufferXorCallback ==
    [][PixelsOutput => ~(dec.image_out_buffer /\ dec.image_out_callback)]_vars

----------------------------------------------------------------------------
(* One still per image out buffer *)

\* C33 as stated: once the pixels of a still have been output,
\* image_out_buffer_set is false (the step PixelsOutput is the output), and
\* the pixels are output only for a still whose FullImage is delivered,
\* never for a still that is being skipped.
BufferWrittenOnlyForDeliveredStill ==
    [][PixelsOutput => ret' = JXL_DEC_FULL_IMAGE /\ ~dec'.skipping_frame]_vars

----------------------------------------------------------------------------
(* The CPU budget *)

RECURSIVE PixelsOfFrames(_)
\* The pixel counts of the first n frames of the file, added up.
PixelsOfFrames(n) ==
    IF n = 0 THEN 0
    ELSE Img.frames[n].xsize * Img.frames[n].ysize + PixelsOfFrames(n - 1)

\* C34: the CPU budget is counted per frame: each decoded frame adds its
\* pixel count to used_cpu_base_ once, however many ProcessInput calls the
\* frame takes, so the sum never exceeds the pixels of the frames whose
\* header has been read.
CpuCountedOncePerFrame ==
    cpu_limit_base_ # 0 =>
        used_cpu_base_ <= PixelsOfFrames(dec.internal_frames)

----------------------------------------------------------------------------
(* MaxVal and the sample depth *)

\* ceil(log2(max_val + 1)): the least number of bits that hold max_val.
BitsToHold(max_val) ==
    CHOOSE k \in 0..32 :
        /\ Pow2(k) >= max_val + 1
        /\ k > 0 => Pow2(k - 1) < max_val + 1

\* C35: for every PGM/PPM header with 0 < MaxVal < 65536 the parser accepts
\* the header and sets bits_per_sample = ceil(log2(MaxVal + 1)), and the
\* decoder accepts that depth; MaxVal 0 and MaxVal >= 65536 are rejected.
BitsPerSampleHoldMaxVal ==
    pnm.mode = "file" /\ pnm.stage = "done" =>
        IF 0 < pnm.max_val /\ pnm.max_val < 65536
        THEN /\ pnm.parsed.ok
             /\ pnm.parsed.header.bits_per_sample = BitsToHold(pnm.max_val)
             /\ pnm.out.ok
        ELSE ~pnm.parsed.ok /\ ~pnm.out.ok

----------------------------------------------------------------------------
(* Section bit-readers *)

----------------------------------------------------------------------------
(* A streaming caller under a memory limit that calls ProcessInput again   *)
(* after an error                                                          *)

InitLimit ==
    /\ fid = 20 /\ memory_limit_base_ = LimitPixels
    /\ used_cpu_base_ = 0
    /\ dec = JxlDecoderCreate
    /\ fed = 0
    /\ cpos = 0
    /\ op = "Create"
    /\ ret = JXL_DEC_SUCCESS
    /\ hist = NoHistory
    /\ sigchk = NoSignatureCheck
    /\ pnm = NoPnm
    /\ depchk = NoDependencies

LimitProcess ==
    /\ dec.next_in # NULL
    /\ ~hist.finished
    /\ \/ op \in {"SetInput", "SetImageOutBuffer"}
       \/ op = "ProcessInput" /\ ret \in InformativeEvents \cup {JXL_DEC_ERROR}
    /\ ProcessInput

NextLimit ==
    \/ ChunkSubscribe
    \/ ChunkSetInput
    \/ LimitProcess
    \/ ChunkRelease
    \/ ChunkImageOutBuffer

SpecLimit == InitLimit /\ [][NextLimit]_vars

\* C36: every section bit-reader opened during a ProcessInput call is closed
\* before the call returns, so that between calls no bit-reader is open and
\* the assertion of Sections::SetInput never fails.
SectionReadersClosed ==
    ~dec.br_open /\ ~dec.aborted

----------------------------------------------------------------------------
(* Offsets of the box walker *)

\* the subtraction box_end - file_pos of the skip does not wrap
SkipWithinBox(d) == d.skip_box => d.file_pos <= d.box_end

\* the subtraction codestream_end - file_pos of the clamp does not wrap
ClampWithinCodestream(c) ==
    c.r = CONT /\ c.d.have_container /\ c.d.codestream_end # 0 =>
        c.d.file_pos <= c.d.codestream_end

\* C37: no unsigned offset subtraction in the box walker wraps: whenever
\* skip_box is set, file_pos <= box_end, and whenever ProcessInput clamps the
\* codestream window with codestream_end # 0, file_pos <= codestream_end.
NoOffsetSubtractionWraps ==
    [][op' = "ProcessInput" =>
          /\ SkipWithinBox(dec)
          /\ SkipWithinBox(dec')
          /\ ClampWithinCodestream(BeforeCodestreamPhase(dec))]_vars

----------------------------------------------------------------------------
(* The frame tables kept across Rewind *)

\* C38: under every sequence of ProcessInput, SkipFrames and Rewind calls
\* frame_references and frame_saved_as have equal length, internal_frames
\* does not exceed that length, every entry of frame_external_to_internal
\* is an index into them, and none of the assertions on the tables fails.
FrameTablesConsistent ==
    /\ Len(dec.frame_references) = Len(dec.frame_saved_as)
    /\ dec.internal_frames <= Len(dec.frame_saved_as)
    /\ \A e \in DOMAIN dec.frame_external_to_internal :
          /\ dec.frame_external_to_internal[e] >= 0
          /\ dec.frame_external_to_internal[e] < Len(dec.frame_saved_as)
    /\ ~dec.aborted

\* after a Rewind and a SkipFrames that found the frame sought in the tables,
\* a frame header has been counted against tables that already hold it
TablesReusedAfterRewind ==
    /\ op = "ProcessInput"
    /\ dec.internal_frames > 0
    /\ dec.internal_frames < Len(dec.frame_saved_as)
    /\ Len(dec.frame_required) > 0
    /\ Len(dec.frame_external_to_internal) > 1

----------------------------------------------------------------------------
(* Progress of the two loops of ProcessInput *)

\* The box loop from (d, pos) on: every iteration that goes on to another
\* one has moved the read position, *next_in + pos, past at least one box
\* header of 8 bytes, within the held input.
RECURSIVE BoxLoopAdvances(_, _)
BoxLoopAdvances(d, pos) ==
    LET Continue(s) ==
            s.r = "next" =>
                /\ s.d.next_in + s.pos >= d.next_in + pos + 8
                /\ s.pos <= s.d.avail_in
                /\ BoxLoopAdvances(s.d, s.pos)
    IN Continue(BoxStep(d, pos))

\* the number of box headers that the box loop passes from (d, pos) on
RECURSIVE BoxLoopIterations(_, _)
BoxLoopIterations(d, pos) ==
    LET Continue(s) ==
            IF s.r = "next" THEN 1 + BoxLoopIterations(s.d, s.pos) ELSE 0
    IN Continue(BoxStep(d, pos))

\* The frame loop from d on: every iteration that goes on to another one
\* has moved frame_start forward by the size of a frame, which is positive.
RECURSIVE FrameLoopAdvances(_, _, _, _)
FrameLoopAdvances(d, in, cut, cpu) ==
    LET Continue(s) ==
            s.r = "loop" =>
                /\ s.d.frame_size > 0
                /\ s.d.frame_start = d.frame_start + s.d.frame_size
                /\ FrameLoopAdvances(s.d, in, cut, s.cpu)
    IN IF d.events_wanted \cap {JXL_DEC_FULL_IMAGE, JXL_DEC_FRAME} = {}
       THEN TRUE
       ELSE IF d.frame_stage = kHeader /\ d.is_last_total
       THEN TRUE
       ELSE Continue(FrameIteration(d, in, cut, cpu))

\* the number of frames that the frame loop passes without returning
RECURSIVE FrameLoopIterations(_, _, _, _)
FrameLoopIterations(d, in, cut, cpu) ==
    LET Continue(s) ==
            IF s.r = "loop"
            THEN 1 + FrameLoopIterations(s.d, in, cut, s.cpu)
            ELSE 0
    IN IF d.events_wanted \cap {JXL_DEC_FULL_IMAGE, JXL_DEC_FRAME} = {}
       THEN 0
       ELSE IF d.frame_stage = kHeader /\ d.is_last_total
       THEN 0
       ELSE Continue(FrameIteration(d, in, cut, cpu))

\* the decoder with which ProcessInput on d0 reaches the box loop, if it does
BoxLoopEntry(d0) ==
    LET d == IF d0.stage = kInited THEN [d0 EXCEPT !.stage = kStarted] ELSE d0
        sig == JxlSignatureCheck(Input(d), d.avail_in)
        d1 == IF d.got_signature THEN d
              ELSE [d EXCEPT !.got_signature = TRUE,
                             !.have_container = sig = JXL_SIG_CONTAINER]
        Entered(c) ==
            IF /\ c.r = CONT
               /\ ~c.d.last_codestream_seen
               /\ (c.d.codestream_begin = 0
                   \/ (c.d.codestream_end # 0
                       /\ c.d.file_pos >= c.d.codestream_end))
            THEN c
            ELSE Ret(c.d, "none")
    IN IF d.stage = kError \/ d.stage = kFinished THEN Ret(d, "none")
       ELSE IF ~d.got_signature /\ sig # JXL_SIG_CONTAINER /\ sig # JXL_SIG_CODESTREAM
       THEN Ret(d, "none")
       ELSE IF d1.have_container
       THEN Entered(JpegBoxInProgress(SpliceCodestream(SkipBox(d1))))
       ELSE Ret(d1, "none")

\* the decoder that the codestream phase hands to the header and frame driver
DriverDecoder(c) ==
    IF c.d.codestream # <<>>
    THEN Consume(AppendCodestream(c.d, 0, Len(CodestreamWindow(c))),
                 Len(CodestreamWindow(c)))
    ELSE c.d

\* the bytes that the codestream phase hands to the header and frame driver
DriverInput(c) ==
    IF c.d.codestream # <<>> THEN DriverDecoder(c).codestream
    ELSE CodestreamWindow(c)

\* the decoder with which the driver reaches the frame loop, if it does
FrameLoopEntry(d, in, cut) ==
    ProcessPreview(
      ProcessColorEncoding(
        ProcessExtensions(
          ProcessAllHeaders(ProcessBasicInfo(d, in), in))),
      in, cut)

BoxWalkAdvances(c) == c.r = CONT => BoxLoopAdvances(c.d, 0)

BoxWalkIterations(c) == IF c.r = CONT THEN BoxLoopIterations(c.d, 0) ELSE 0

FramesAdvance(p, in, cut, cpu) ==
    p.r = CONT => FrameLoopAdvances(p.d, in, cut, cpu)

FramesIterations(p, in, cut, cpu) ==
    IF p.r = CONT THEN FrameLoopIterations(p.d, in, cut, cpu) ELSE 0

DriverAdvances(c, cut, cpu) ==
    c.r = CONT =>
        FramesAdvance(FrameLoopEntry(DriverDecoder(c), DriverInput(c), cut),
                      DriverInput(c), cut, cpu)

DriverIterations(c, cut, cpu) ==
    IF c.r = CONT
    THEN FramesIterations(FrameLoopEntry(DriverDecoder(c), DriverInput(c), cut),
                          DriverInput(c), cut, cpu)
    ELSE 0

\* C39: a ProcessInput call on any reachable decoder with any held input
\* returns after finitely many steps: every iteration of the box loop
\* returns, breaks or advances past at least one box header, and every
\* iteration of the frame loop returns or advances frame_start by a positive
\* frame_size.
ProcessInputLoopsAdvance ==
    Alive =>
        /\ BoxWalkAdvances(BoxLoopEntry(dec))
        /\ \A cut \in Cuts :
              DriverAdvances(BeforeCodestreamPhase(dec), cut, used_cpu_base_)

\* a ProcessInput call on this state passes several boxes and then, in the
\* frame loop, a frame for which it does not return
SeveralBoxesAndFramesInOneCall ==
    /\ Alive
    /\ BoxWalkIterations(BoxLoopEntry(dec)) >= 2
    /\ \E cut \in Cuts :
          DriverIterations(BeforeCodestreamPhase(dec), cut, used_cpu_base_) >= 1

----------------------------------------------------------------------------
(* The earlier codestream part of a multi-box file *)

\* ProcessInput found a codestream box while the codestream buffer was empty
\* and the part seen before it began in front of the held input: the error
\* "earlier codestream box out of range"
EarlierBoxOutOfRange ==
    /\ ret = JXL_DEC_ERROR
    /\ dec.codestream = <<>>
    /\ dec.codestream_begin # 0
    /\ dec.codestream_begin < dec.file_pos

\* C40: when a second codestream box is found while the codestream buffer is
\* empty, the part seen before lies inside the held input, so that for a
\* well-formed multi-box file, whatever its chunking, neither the error
\* "earlier codestream box out of range" is returned nor the assertion
\* end <= avail_in fails.
EarlierPartStillHeld ==
    [][op' = "ProcessInput" /\ Files[fid].valid =>
          ~EarlierBoxOutOfRange' /\ ~dec'.aborted]_vars

============================================================================
